---------------------------- MODULE Spec2Model ----------------------------
(***************************************************************************)
(* Agentifyjs: the streaming core.                                         *)
(*                                                                         *)
(* StreamHandler.handleStream reads chunks of bytes from a transport,      *)
(* decodes them to text, appends the text to this.buffer, runs the         *)
(* provider's line decoder (processOpenAIBuffer, processAnthropicBuffer,   *)
(* processGeminiBuffer) and dispatches the decoded items to callbacks.     *)
(* Agentify.handleStreamingResponse supplies the callbacks; its onToolCall *)
(* starts a tool execution that the read loop never waits for.             *)
(*                                                                         *)
(* Text is a sequence of characters, a chunk a sequence of bytes.  An      *)
(* ASCII byte and its character are the same one-character string; the     *)
(* two bytes of U+00E9 are "xC3" and "xA9".                                *)
(***************************************************************************)
EXTENDS Integers, Sequences, FiniteSets, TLC

(***************************************************************************)
(* Text helpers (String.prototype methods used by the decoders).           *)
(***************************************************************************)

\* The characters String.prototype.trim removes that can occur in a line.
IsWhitespace(c) == c \in {" ", "\t", "\r"}

\* The characters the RegExp dot does not match.
IsLineTerminator(c) == c \in {"\n", "\r"}

RECURSIVE TrimStart(_)
TrimStart(s) ==
  IF s # <<>> /\ IsWhitespace(Head(s)) THEN TrimStart(Tail(s)) ELSE s

RECURSIVE TrimEnd(_)
TrimEnd(s) ==
  IF s # <<>> /\ IsWhitespace(s[Len(s)])
  THEN TrimEnd(SubSeq(s, 1, Len(s) - 1))
  ELSE s

\* line.trim()
Trim(s) == TrimEnd(TrimStart(s))

\* line.startsWith(p)
StartsWith(s, p) == Len(s) >= Len(p) /\ SubSeq(s, 1, Len(p)) = p

\* line.substring(n): the text from offset n (0-based) on.
Substring(s, n) == SubSeq(s, n + 1, Len(s))

\* The offset of the first "\n" of s at or after offset i, 0 when there is none.
FirstNewline(s, i) ==
  LET at == {k \in i..Len(s) : s[k] = "\n"} IN
  IF at = {} THEN 0 ELSE CHOOSE k \in at : \A m \in at : k <= m

\* s.split('\n'): the segments between newlines; always at least one segment.
RECURSIVE Split(_)
Split(s) ==
  LET n == FirstNewline(s, 1) IN
  IF n = 0 THEN <<s>>
  ELSE <<SubSeq(s, 1, n - 1)>> \o Split(SubSeq(s, n + 1, Len(s)))

\* The concatenation of a sequence of sequences.
RECURSIVE Flatten(_)
Flatten(ss) == IF ss = <<>> THEN <<>> ELSE Head(ss) \o Flatten(Tail(ss))

(***************************************************************************)
(* TextDecoder.decode(value, {stream: true}) for UTF-8.  The decoder keeps *)
(* the bytes of an incomplete sequence across calls; a malformed sequence  *)
(* decodes to U+FFFD.                                                      *)
(***************************************************************************)

IsLeadByte(b) == b = "xC3"
IsContinuationByte(b) == b = "xA9"

\* One byte, given the pending bytes: the characters that come out and the
\* bytes that stay pending.
DecodeByte(pending, b) ==
  IF pending # <<>>
  THEN IF IsContinuationByte(b)
       THEN [out |-> <<"U+00E9">>, pending |-> <<>>]
       ELSE IF IsLeadByte(b)
            THEN [out |-> <<"U+FFFD">>, pending |-> <<b>>]
            ELSE [out |-> <<"U+FFFD", b>>, pending |-> <<>>]
  ELSE IF IsLeadByte(b)
       THEN [out |-> <<>>, pending |-> <<b>>]
       ELSE IF IsContinuationByte(b)
            THEN [out |-> <<"U+FFFD">>, pending |-> <<>>]
            ELSE [out |-> <<b>>, pending |-> <<>>]

\* The bytes pending before byte i: what DecodeByte left after byte i - 1,
\* which is that byte when it starts a sequence and nothing otherwise.
PendingBefore(pending, bytes, i) ==
  IF i = 1 THEN pending
  ELSE IF IsLeadByte(bytes[i - 1]) THEN <<bytes[i - 1]>> ELSE <<>>

\* The characters that come out of the bytes lo..hi.
RECURSIVE DecodeRange(_, _, _, _)
DecodeRange(pending, bytes, lo, hi) ==
  IF lo > hi THEN <<>>
  ELSE IF lo = hi THEN DecodeByte(PendingBefore(pending, bytes, lo), bytes[lo]).out
  ELSE LET mid == (lo + hi) \div 2 IN
       DecodeRange(pending, bytes, lo, mid) \o DecodeRange(pending, bytes, mid + 1, hi)

\* The bytes decoded in order, starting with `pending` left by the call before.
DecodeFrom(pending, bytes) ==
  [out |-> DecodeRange(pending, bytes, 1, Len(bytes)),
   pending |-> PendingBefore(pending, bytes, Len(bytes) + 1)]

\* A decoder that forgets the pending bytes at the end of every call
\* (decode without {stream: true}).
TextDecoderDecodeNoStream(pending, bytes) ==
  LET r == DecodeFrom(<<>>, bytes) IN
  [out |-> r.out \o (IF r.pending # <<>> THEN <<"U+FFFD">> ELSE <<>>),
   pending |-> <<>>]

\* decoder.decode(value, { stream: true })
TextDecoderDecode(pending, bytes) == DecodeFrom(pending, bytes)

(***************************************************************************)
(* JavaScript values, as JSON.parse builds them.                           *)
(***************************************************************************)

Undefined == [t |-> "undefined"]
Null == [t |-> "null"]
Bool(b) == [t |-> "boolean", b |-> b]
Num(n) == [t |-> "number", n |-> n]
Str(s) == [t |-> "string", s |-> s]
Arr(a) == [t |-> "array", a |-> a]
Obj(o) == [t |-> "object", o |-> o]

\* The object with no property.
EmptyObject == Obj([k \in {} |-> Undefined])

IsNullish(v) == v.t \in {"undefined", "null"}

\* ToBoolean: what `if (v)` and `a && b` test.
Truthy(v) ==
  CASE v.t = "undefined" -> FALSE
    [] v.t = "null" -> FALSE
    [] v.t = "boolean" -> v.b
    [] v.t = "number" -> v.n # 0
    [] v.t = "string" -> v.s # <<>>
    [] OTHER -> TRUE

\* v.k for a v that is not null or undefined (those throw a TypeError, which
\* the callers test with IsNullish first).  A primitive has none of the
\* properties the decoders read.
Get(v, k) ==
  IF v.t = "object" /\ k \in DOMAIN v.o THEN v.o[k] ELSE Undefined

\* v?.k
GetOpt(v, k) == IF IsNullish(v) THEN Undefined ELSE Get(v, k)

\* v[0]
First(v) ==
  CASE v.t = "array" -> IF v.a # <<>> THEN v.a[1] ELSE Undefined
    [] v.t = "string" -> IF v.s # <<>> THEN Str(<<v.s[1]>>) ELSE Undefined
    [] v.t = "object" -> Get(v, <<"0">>)
    [] OTHER -> Undefined

\* Whether `for (const x of v)` can iterate v (otherwise a TypeError).
IsIterable(v) == v.t \in {"array", "string"}

\* The values `for (const x of v)` visits.
Elements(v) ==
  IF v.t = "array" THEN v.a
  ELSE [i \in 1..Len(v.s) |-> Str(<<v.s[i]>>)]


(***************************************************************************)
(* JSON.parse.  The text is parsed as JSON.parse parses it: objects,       *)
(* arrays, strings with the escapes \" \\ \/ \n \r \t, non-negative        *)
(* integers, true, false, null, with whitespace between tokens.  A text    *)
(* that is not one JSON value makes JSON.parse throw (ok = FALSE).         *)
(***************************************************************************)

ParseFail == [ok |-> FALSE, val |-> Undefined, next |-> 0]
ParseOk(v, n) == [ok |-> TRUE, val |-> v, next |-> n]

IsJsonWhitespace(c) == c \in {" ", "\t", "\r", "\n"}

Digits == <<"0", "1", "2", "3", "4", "5", "6", "7", "8", "9">>
IsDigit(c) == \E d \in 1..10 : Digits[d] = c
DigitValue(c) == (CHOOSE d \in 1..10 : Digits[d] = c) - 1

RECURSIVE SkipWhitespace(_, _)
SkipWhitespace(s, i) ==
  IF i <= Len(s) /\ IsJsonWhitespace(s[i]) THEN SkipWhitespace(s, i + 1) ELSE i

\* Whether the text w stands at offset i of s.
LiteralAt(s, i, w) ==
  i + Len(w) - 1 <= Len(s) /\ SubSeq(s, i, i + Len(w) - 1) = w

\* The character an escape \e stands for, <<>> for an escape this parser
\* does not read.
Unescape(e) ==
  CASE e \in {"\"", "\\", "/"} -> <<e>>
    [] e = "n" -> <<"\n">>
    [] e = "r" -> <<"\r">>
    [] e = "t" -> <<"\t">>
    [] OTHER -> <<>>

\* The characters of a string literal from offset i (after its opening quote).
RECURSIVE ParseStringBody(_, _)
ParseStringBody(s, i) ==
  IF i > Len(s) THEN ParseFail
  ELSE IF s[i] = "\"" THEN ParseOk(<<>>, i + 1)
  ELSE IF s[i] \in {"\n", "\r", "\t"} THEN ParseFail
  ELSE IF s[i] = "\\"
       THEN IF i + 1 > Len(s) \/ Unescape(s[i + 1]) = <<>> THEN ParseFail
            ELSE LET rest == ParseStringBody(s, i + 2) IN
                 IF rest.ok
                 THEN ParseOk(Unescape(s[i + 1]) \o rest.val, rest.next)
                 ELSE ParseFail
       ELSE LET rest == ParseStringBody(s, i + 1) IN
            IF rest.ok THEN ParseOk(<<s[i]>> \o rest.val, rest.next)
            ELSE ParseFail

\* The digits from offset i on: their value so far is acc.
RECURSIVE ParseDigits(_, _, _)
ParseDigits(s, i, acc) ==
  IF i <= Len(s) /\ IsDigit(s[i])
  THEN ParseDigits(s, i + 1, acc * 10 + DigitValue(s[i]))
  ELSE ParseOk(Num(acc), i)

RECURSIVE ParseValue(_, _), ParseMembers(_, _, _), ParseElements(_, _, _)

\* The members of an object from offset i (at a key's opening quote), added
\* to the properties o; a repeated key keeps its last value.
ParseMembers(s, i, o) ==
  IF i > Len(s) \/ s[i] # "\"" THEN ParseFail
  ELSE LET key == ParseStringBody(s, i + 1) IN
       IF ~key.ok THEN ParseFail
       ELSE LET colon == SkipWhitespace(s, key.next) IN
            IF colon > Len(s) \/ s[colon] # ":" THEN ParseFail
            ELSE LET v == ParseValue(s, SkipWhitespace(s, colon + 1)) IN
                 IF ~v.ok THEN ParseFail
                 ELSE LET after == SkipWhitespace(s, v.next)
                          o2 == (key.val :> v.val) @@ o
                      IN IF after > Len(s) THEN ParseFail
                         ELSE IF s[after] = "}" THEN ParseOk(Obj(o2), after + 1)
                         ELSE IF s[after] = ","
                              THEN ParseMembers(s, SkipWhitespace(s, after + 1), o2)
                              ELSE ParseFail

\* The elements of an array from offset i, appended to a.
ParseElements(s, i, a) ==
  LET v == ParseValue(s, i) IN
  IF ~v.ok THEN ParseFail
  ELSE LET after == SkipWhitespace(s, v.next)
           a2 == Append(a, v.val)
       IN IF after > Len(s) THEN ParseFail
          ELSE IF s[after] = "]" THEN ParseOk(Arr(a2), after + 1)
          ELSE IF s[after] = ","
               THEN ParseElements(s, SkipWhitespace(s, after + 1), a2)
               ELSE ParseFail

\* The JSON value that starts at offset i of s.
ParseValue(s, i) ==
  IF i > Len(s) THEN ParseFail
  ELSE IF s[i] = "{"
       THEN LET j == SkipWhitespace(s, i + 1) IN
            IF j <= Len(s) /\ s[j] = "}" THEN ParseOk(EmptyObject, j + 1)
            ELSE ParseMembers(s, j, EmptyObject.o)
  ELSE IF s[i] = "["
       THEN LET j == SkipWhitespace(s, i + 1) IN
            IF j <= Len(s) /\ s[j] = "]" THEN ParseOk(Arr(<<>>), j + 1)
            ELSE ParseElements(s, j, <<>>)
  ELSE IF s[i] = "\""
       THEN LET b == ParseStringBody(s, i + 1) IN
            IF b.ok THEN ParseOk(Str(b.val), b.next) ELSE ParseFail
  ELSE IF IsDigit(s[i])
       THEN IF s[i] = "0" /\ i + 1 <= Len(s) /\ IsDigit(s[i + 1]) THEN ParseFail
            ELSE ParseDigits(s, i, 0)
  ELSE IF LiteralAt(s, i, <<"t", "r", "u", "e">>) THEN ParseOk(Bool(TRUE), i + 4)
  ELSE IF LiteralAt(s, i, <<"f", "a", "l", "s", "e">>) THEN ParseOk(Bool(FALSE), i + 5)
  ELSE IF LiteralAt(s, i, <<"n", "u", "l", "l">>) THEN ParseOk(Null, i + 4)
  ELSE ParseFail

\* JSON.parse(text): ok = FALSE stands for the SyntaxError it throws.
JSONParse(text) ==
  LET v == ParseValue(text, SkipWhitespace(text, 1)) IN
  IF v.ok /\ SkipWhitespace(text, v.next) = Len(text) + 1
  THEN [ok |-> TRUE, val |-> v.val]
  ELSE [ok |-> FALSE, val |-> Undefined]

(***************************************************************************)
(* The property names and string literals the decoders use, as text.       *)
(***************************************************************************)

\* choices
K_choices ==
  <<"c","h","o","i","c","e","s">>

\* delta
K_delta ==
  <<"d","e","l","t","a">>

\* content
K_content ==
  <<"c","o","n","t","e","n","t">>

\* tool_calls
K_tool_calls ==
  <<"t","o","o","l","_","c","a","l","l","s">>

\* function
K_function ==
  <<"f","u","n","c","t","i","o","n">>

\* id
K_id ==
  <<"i","d">>

\* name
K_name ==
  <<"n","a","m","e">>

\* arguments
K_arguments ==
  <<"a","r","g","u","m","e","n","t","s">>

\* finish_reason
K_finish_reason ==
  <<"f","i","n","i","s","h","_","r","e","a","s","o","n">>

\* type
K_type ==
  <<"t","y","p","e">>

\* text
K_text ==
  <<"t","e","x","t">>

\* content_block
K_content_block ==
  <<"c","o","n","t","e","n","t","_","b","l","o","c","k">>

\* input
K_input ==
  <<"i","n","p","u","t">>

\* candidates
K_candidates ==
  <<"c","a","n","d","i","d","a","t","e","s">>

\* parts
K_parts ==
  <<"p","a","r","t","s">>

\* functionCall
K_functionCall ==
  <<"f","u","n","c","t","i","o","n","C","a","l","l">>

\* args
K_args ==
  <<"a","r","g","s">>

\* finishReason
K_finishReason ==
  <<"f","i","n","i","s","h","R","e","a","s","o","n">>

\* content_block_delta
S_content_block_delta ==
  <<"c","o","n","t","e","n","t","_","b","l","o","c","k","_","d","e","l","t","a">>

\* content_block_start
S_content_block_start ==
  <<"c","o","n","t","e","n","t","_","b","l","o","c","k","_","s","t","a","r","t">>

\* tool_use
S_tool_use ==
  <<"t","o","o","l","_","u","s","e">>

\* message_stop
S_message_stop ==
  <<"m","e","s","s","a","g","e","_","s","t","o","p">>

\* stop
S_stop ==
  <<"s","t","o","p">>

\* data: 
P_data ==
  <<"d","a","t","a",":"," ">>

\* event: 
P_event ==
  <<"e","v","e","n","t",":"," ">>

\* data: [DONE]
S_done ==
  <<"d","a","t","a",":"," ","[","D","O","N","E","]">>


(***************************************************************************)
(* The decoders of StreamHandler.  Each takes the buffer text and returns  *)
(* the items decoded from its complete lines and the new buffer: the text  *)
(* after the last newline.  An item is a record with its type and, by      *)
(* type, content (token), data (tool_call) or reason (finish).             *)
(***************************************************************************)

NoItems == [items |-> <<>>, threw |-> FALSE]

\* A remainder taken from the front of the lines (shift for pop).
LinesShift(lines) == lines[1]

\* lines.pop() || '': the last segment of the split.
LinesPop(lines) == lines[Len(lines)]

\* A decoder that pops nothing: the last segment is decoded with the lines.
LinesRestKeepsLast(lines) == lines

\* The lines left in `lines` after lines.pop().
LinesRest(lines) == SubSeq(lines, 1, Len(lines) - 1)

\* for (const toolCall of choice.delta.tool_calls): the items pushed for the
\* entries from i on; threw when an entry is null (toolCall.function throws).
RECURSIVE OpenAIToolCallItems(_, _)
OpenAIToolCallItems(entries, i) ==
  IF i > Len(entries) THEN NoItems
  ELSE LET toolCall == entries[i] IN
       IF IsNullish(toolCall) THEN [items |-> <<>>, threw |-> TRUE]
       ELSE LET fn == Get(toolCall, K_function)
                rest == OpenAIToolCallItems(entries, i + 1)
                here == IF Truthy(fn)
                        THEN <<[type |-> "tool_call",
                                data |-> [id |-> Get(toolCall, K_id),
                                          name |-> Get(fn, K_name),
                                          arguments |-> Get(fn, K_arguments)]]>>
                        ELSE <<>>
            IN [items |-> here \o rest.items, threw |-> rest.threw]

\* A decoder that emits an error event for a payload with an `error` member.
OpenAIDataItemsEmitsError(data) ==
  IF IsNullish(data) THEN <<>>
  ELSE IF Truthy(Get(data, <<"e", "r", "r", "o", "r">>))
       THEN <<[type |-> "error", data |-> Get(data, <<"e", "r", "r", "o", "r">>)]>>
       ELSE <<>>

\* The body of the try block of processOpenAIBuffer for the parsed data; an
\* exception ends the line and keeps the items pushed before it.
OpenAIDataItems(data) ==
  IF IsNullish(data) THEN <<>>
  ELSE LET choices == Get(data, K_choices) IN
       IF ~Truthy(choices) THEN <<>>
       ELSE LET choice == First(choices) IN
            IF ~Truthy(choice) THEN <<>>
            ELSE LET delta == Get(choice, K_delta)
                     content == GetOpt(delta, K_content)
                     token == IF Truthy(content)
                              THEN <<[type |-> "token", content |-> content]>>
                              ELSE <<>>
                     toolCalls == GetOpt(delta, K_tool_calls)
                     tools == IF ~Truthy(toolCalls) THEN NoItems
                              ELSE IF ~IsIterable(toolCalls)
                                   THEN [items |-> <<>>, threw |-> TRUE]
                                   ELSE OpenAIToolCallItems(Elements(toolCalls), 1)
                     reason == Get(choice, K_finish_reason)
                     finish == IF ~tools.threw /\ Truthy(reason)
                               THEN <<[type |-> "finish", reason |-> reason]>>
                               ELSE <<>>
                 IN token \o tools.items \o finish

\* One line of processOpenAIBuffer.
OpenAILineItems(line) ==
  IF Trim(line) = <<>> \/ Trim(line) = S_done THEN <<>>
  ELSE IF ~StartsWith(line, P_data) THEN <<>>
  ELSE LET parsed == JSONParse(Substring(line, 6)) IN
       IF parsed.ok THEN OpenAIDataItems(parsed.val) ELSE <<>>

\* A loop over the lines that a line without items ends (break for
\* continue).
RECURSIVE OpenAILinesItemsAbort(_)
OpenAILinesItemsAbort(lines) ==
  IF lines = <<>> \/ OpenAILineItems(Head(lines)) = <<>> THEN <<>>
  ELSE OpenAILineItems(Head(lines)) \o OpenAILinesItemsAbort(Tail(lines))

RECURSIVE OpenAILinesItems(_)
OpenAILinesItems(lines) ==
  IF lines = <<>> THEN <<>>
  ELSE OpenAILineItems(Head(lines)) \o OpenAILinesItems(Tail(lines))

\* processOpenAIBuffer()
ProcessOpenAIBuffer(buf) ==
  LET lines == Split(buf) IN
  [processed |-> OpenAILinesItems(LinesRest(lines)), buffer |-> LinesPop(lines)]

\* line.match(/^data: (.+)$/): the captured text, <<>> when the line does not
\* match (the dot matches no line terminator).
DataMatch(line) ==
  IF StartsWith(line, P_data)
     /\ Len(line) > Len(P_data)
     /\ \A i \in (Len(P_data) + 1)..Len(line) : ~IsLineTerminator(line[i])
  THEN Substring(line, 6)
  ELSE <<>>

\* A decoder that re-emits every input delta of a block as a tool_call of its
\* own, as the delta-style decoder does with fragments.
AnthropicDataItemsDeltaCalls(data) ==
  IF IsNullish(data) THEN <<>>
  ELSE LET type == Get(data, K_type)
           text == GetOpt(Get(data, K_delta), K_text)
           block == Get(data, K_content_block)
       IN IF type = Str(S_content_block_delta)
          THEN IF Truthy(text) THEN <<[type |-> "token", content |-> text]>>
               ELSE <<[type |-> "tool_call",
                       data |-> [id |-> Undefined, name |-> Undefined,
                                 input |-> Get(data, K_delta)]]>>
          ELSE IF type = Str(S_content_block_start)
                  /\ GetOpt(block, K_type) = Str(S_tool_use)
               THEN <<[type |-> "tool_call",
                       data |-> [id |-> Get(block, K_id), name |-> Get(block, K_name),
                                 input |-> Get(block, K_input)]]>>
               ELSE IF type = Str(S_message_stop)
                    THEN <<[type |-> "finish", reason |-> Str(S_stop)]>>
                    ELSE <<>>

\* The body of the try block of processAnthropicBuffer for the parsed data.
AnthropicDataItems(data) ==
  IF IsNullish(data) THEN <<>>
  ELSE LET type == Get(data, K_type)
           token == IF type = Str(S_content_block_delta)
                       /\ Truthy(GetOpt(Get(data, K_delta), K_text))
                    THEN <<[type |-> "token",
                            content |-> Get(Get(data, K_delta), K_text)]>>
                    ELSE <<>>
           block == Get(data, K_content_block)
           tool == IF type = Str(S_content_block_start)
                      /\ GetOpt(block, K_type) = Str(S_tool_use)
                   THEN <<[type |-> "tool_call",
                           data |-> [id |-> Get(block, K_id),
                                     name |-> Get(block, K_name),
                                     input |-> Get(block, K_input)]]>>
                   ELSE <<>>
           finish == IF type = Str(S_message_stop)
                     THEN <<[type |-> "finish", reason |-> Str(S_stop)]>>
                     ELSE <<>>
       IN token \o tool \o finish

\* One line of processAnthropicBuffer.
AnthropicLineItems(line) ==
  IF Trim(line) = <<>> THEN <<>>
  ELSE IF ~(StartsWith(line, P_event) \/ StartsWith(line, P_data)) THEN <<>>
  ELSE IF DataMatch(line) = <<>> THEN <<>>
  ELSE LET parsed == JSONParse(DataMatch(line)) IN
       IF parsed.ok THEN AnthropicDataItems(parsed.val) ELSE <<>>

RECURSIVE AnthropicLinesItems(_)
AnthropicLinesItems(lines) ==
  IF lines = <<>> THEN <<>>
  ELSE AnthropicLineItems(Head(lines)) \o AnthropicLinesItems(Tail(lines))

\* processAnthropicBuffer()
ProcessAnthropicBuffer(buf) ==
  LET lines == Split(buf) IN
  [processed |-> AnthropicLinesItems(LinesRest(lines)), buffer |-> LinesPop(lines)]

\* for (const part of candidate.content.parts): the items pushed for the
\* parts from i on; threw when a part is null (part.text throws).
RECURSIVE GeminiPartItems(_, _)
GeminiPartItems(parts, i) ==
  IF i > Len(parts) THEN NoItems
  ELSE LET part == parts[i] IN
       IF IsNullish(part) THEN [items |-> <<>>, threw |-> TRUE]
       ELSE LET text == Get(part, K_text)
                call == Get(part, K_functionCall)
                rest == GeminiPartItems(parts, i + 1)
                token == IF Truthy(text)
                         THEN <<[type |-> "token", content |-> text]>>
                         ELSE <<>>
                tool == IF Truthy(call)
                        THEN <<[type |-> "tool_call",
                                data |-> [name |-> Get(call, K_name),
                                          arguments |-> Get(call, K_args)]]>>
                        ELSE <<>>
            IN [items |-> token \o tool \o rest.items, threw |-> rest.threw]

\* The body of the try block of processGeminiBuffer for the parsed data.
GeminiDataItems(data) ==
  IF IsNullish(data) THEN <<>>
  ELSE LET candidates == Get(data, K_candidates) IN
       IF ~Truthy(candidates) THEN <<>>
       ELSE LET candidate == First(candidates) IN
            IF ~Truthy(candidate) THEN <<>>
            ELSE LET parts == GetOpt(Get(candidate, K_content), K_parts)
                     walked == IF ~Truthy(parts) THEN NoItems
                               ELSE IF ~IsIterable(parts)
                                    THEN [items |-> <<>>, threw |-> TRUE]
                                    ELSE GeminiPartItems(Elements(parts), 1)
                     reason == Get(candidate, K_finishReason)
                     finish == IF ~walked.threw /\ Truthy(reason)
                               THEN <<[type |-> "finish", reason |-> reason]>>
                               ELSE <<>>
                 IN walked.items \o finish

\* One line of processGeminiBuffer.
GeminiLineItems(line) ==
  IF Trim(line) = <<>> THEN <<>>
  ELSE LET parsed == JSONParse(line) IN
       IF parsed.ok THEN GeminiDataItems(parsed.val) ELSE <<>>

RECURSIVE GeminiLinesItems(_)
GeminiLinesItems(lines) ==
  IF lines = <<>> THEN <<>>
  ELSE GeminiLineItems(Head(lines)) \o GeminiLinesItems(Tail(lines))

\* processGeminiBuffer()
ProcessGeminiBuffer(buf) ==
  LET lines == Split(buf) IN
  [processed |-> GeminiLinesItems(LinesRest(lines)), buffer |-> LinesPop(lines)]

\* A switch that sends every provider tag to the OpenAI decoder.
ProcessBufferOpenAIOnly(buf, provider) == ProcessOpenAIBuffer(buf)

\* processBuffer(provider): the switch on the provider tag.
ProcessBuffer(buf, provider) ==
  CASE provider \in {"openai", "deepseek"} -> ProcessOpenAIBuffer(buf)
    [] provider = "anthropic" -> ProcessAnthropicBuffer(buf)
    [] provider = "gemini" -> ProcessGeminiBuffer(buf)
    [] OTHER -> ProcessOpenAIBuffer(buf)

(***************************************************************************)
(* String conversion: what `fullContent += item.content` appends.          *)
(***************************************************************************)

RECURSIVE DecimalDigits(_)
DecimalDigits(n) ==
  IF n < 10 THEN <<Digits[n + 1]>>
  ELSE DecimalDigits(n \div 10) \o <<Digits[(n % 10) + 1]>>

RECURSIVE ToJsString(_), JoinElements(_, _)

\* Array.prototype.join(','): null and undefined elements give no text.
JoinElements(a, i) ==
  IF i > Len(a) THEN <<>>
  ELSE (IF i > 1 THEN <<",">> ELSE <<>>)
       \o (IF IsNullish(a[i]) THEN <<>> ELSE ToJsString(a[i]))
       \o JoinElements(a, i + 1)

\* ToString(v)
ToJsString(v) ==
  CASE v.t = "string" -> v.s
    [] v.t = "number" -> DecimalDigits(v.n)
    [] v.t = "boolean" -> IF v.b THEN <<"t", "r", "u", "e">>
                                 ELSE <<"f", "a", "l", "s", "e">>
    [] v.t = "null" -> <<"n", "u", "l", "l">>
    [] v.t = "undefined" -> <<"u", "n", "d", "e", "f", "i", "n", "e", "d">>
    [] v.t = "array" -> JoinElements(v.a, 1)
    [] OTHER -> <<"[", "o", "b", "j", "e", "c", "t", " ", "O", "b", "j", "e", "c", "t", "]">>

(***************************************************************************)
(* Collaborators of StreamHandler.                                         *)
(***************************************************************************)

NoError == [cls |-> "none", code |-> "", message |-> "", details |-> ""]

\* errorManager.createStreamError(message, code, details): a StreamError.
CreateStreamError(message, code, details) ==
  [cls |-> "StreamError", code |-> code, message |-> message, details |-> details]

\* What a read of the transport rejects with: an Error that is no StreamError.
TransportError ==
  [cls |-> "Error", code |-> "", message |-> "network error", details |-> ""]

\* What a throwing callback throws: an Error, or a StreamError of the caller's.
CallbackError(cls) ==
  [cls |-> cls, code |-> IF cls = "StreamError" THEN "CALLER_CODE" ELSE "",
   message |-> "callback failed", details |-> ""]

\* formatThinkingContent(content): the display form of a thinking fragment.
FormatThinkingContent(content) == [formatted |-> content]

\* The names the tool registry holds.
RegisteredTools == {Str(<<"f">>)}

\* toolManager.hasTool(name)
HasTool(name) == name \in RegisteredTools

(***************************************************************************)
(* Wire lines of the three provider formats, as bytes (without the         *)
(* newline that ends a line).                                              *)
(***************************************************************************)

\* data: {"choices":[{"delta":{"content":"Hi"}}]}
OpenAIToken ==
  <<"d","a","t","a",":"," ","{","\"","c","h","o","i","c","e","s","\"",":","[","{","\"","d","e",
    "l","t","a","\"",":","{","\"","c","o","n","t","e","n","t","\"",":","\"","H","i","\"","}",
    "}","]","}">>

\* data: {"choices":[{"delta":{"content":"é"}}]}
OpenAITokenAccent ==
  <<"d","a","t","a",":"," ","{","\"","c","h","o","i","c","e","s","\"",":","[","{","\"","d","e",
    "l","t","a","\"",":","{","\"","c","o","n","t","e","n","t","\"",":","\"","xC3","xA9","\"",
    "}","}","]","}">>

\* data: {"choices":[{"delta":{"tool_calls":[{"id":"c1","function":{"name":"f","arguments":""}}]}}]}
OpenAIToolCall ==
  <<"d","a","t","a",":"," ","{","\"","c","h","o","i","c","e","s","\"",":","[","{","\"","d","e",
    "l","t","a","\"",":","{","\"","t","o","o","l","_","c","a","l","l","s","\"",":","[","{","\"",
    "i","d","\"",":","\"","c","1","\"",",","\"","f","u","n","c","t","i","o","n","\"",":","{",
    "\"","n","a","m","e","\"",":","\"","f","\"",",","\"","a","r","g","u","m","e","n","t","s",
    "\"",":","\"","\"","}","}","]","}","}","]","}">>

\* A call of a tool the registry does not have:
\* data: {"choices":[{"delta":{"tool_calls":[{"id":"c2","function":{"name":"g","arguments":""}}]}}]}
OpenAIToolCallUnknown ==
  <<"d","a","t","a",":"," ","{","\"","c","h","o","i","c","e","s","\"",":","[","{","\"","d","e",
    "l","t","a","\"",":","{","\"","t","o","o","l","_","c","a","l","l","s","\"",":","[","{","\"",
    "i","d","\"",":","\"","c","2","\"",",","\"","f","u","n","c","t","i","o","n","\"",":","{",
    "\"","n","a","m","e","\"",":","\"","g","\"",",","\"","a","r","g","u","m","e","n","t","s",
    "\"",":","\"","\"","}","}","]","}","}","]","}">>

\* data: {"choices":[{"delta":{"tool_calls":[{"function":{"arguments":"{}"}}]}}]}
OpenAIToolFragment ==
  <<"d","a","t","a",":"," ","{","\"","c","h","o","i","c","e","s","\"",":","[","{","\"","d","e",
    "l","t","a","\"",":","{","\"","t","o","o","l","_","c","a","l","l","s","\"",":","[","{","\"",
    "f","u","n","c","t","i","o","n","\"",":","{","\"","a","r","g","u","m","e","n","t","s","\"",
    ":","\"","{","}","\"","}","}","]","}","}","]","}">>

\* data: {"choices":[{"delta":{},"finish_reason":"length"}]}
OpenAIFinish ==
  <<"d","a","t","a",":"," ","{","\"","c","h","o","i","c","e","s","\"",":","[","{","\"","d","e",
    "l","t","a","\"",":","{","}",",","\"","f","i","n","i","s","h","_","r","e","a","s","o","n",
    "\"",":","\"","l","e","n","g","t","h","\"","}","]","}">>

\* data: [DONE]
OpenAIDone ==
  <<"d","a","t","a",":"," ","[","D","O","N","E","]">>

\* data: {"choices":[{"delta"
OpenAIMalformed ==
  <<"d","a","t","a",":"," ","{","\"","c","h","o","i","c","e","s","\"",":","[","{","\"","d","e",
    "l","t","a","\"">>

\* data: {"error":{"message":"x"}}
OpenAIError ==
  <<"d","a","t","a",":"," ","{","\"","e","r","r","o","r","\"",":","{","\"","m","e","s","s","a",
    "g","e","\"",":","\"","x","\"","}","}">>

\* event: content_block_delta
AnthropicEvent ==
  <<"e","v","e","n","t",":"," ","c","o","n","t","e","n","t","_","b","l","o","c","k","_","d","e",
    "l","t","a">>

\* data: {"type":"content_block_delta","delta":{"text":"Hi"}}
AnthropicToken ==
  <<"d","a","t","a",":"," ","{","\"","t","y","p","e","\"",":","\"","c","o","n","t","e","n","t",
    "_","b","l","o","c","k","_","d","e","l","t","a","\"",",","\"","d","e","l","t","a","\"",":",
    "{","\"","t","e","x","t","\"",":","\"","H","i","\"","}","}">>

\* data: {"type":"content_block_delta","delta":{"text":"é"}}
AnthropicTokenAccent ==
  <<"d","a","t","a",":"," ","{","\"","t","y","p","e","\"",":","\"","c","o","n","t","e","n","t",
    "_","b","l","o","c","k","_","d","e","l","t","a","\"",",","\"","d","e","l","t","a","\"",":",
    "{","\"","t","e","x","t","\"",":","\"","xC3","xA9","\"","}","}">>

\* data: {"type":"content_block_start","content_block":{"type":"tool_use","id":"t1","name":"f","input":{}}}
AnthropicToolUse ==
  <<"d","a","t","a",":"," ","{","\"","t","y","p","e","\"",":","\"","c","o","n","t","e","n","t",
    "_","b","l","o","c","k","_","s","t","a","r","t","\"",",","\"","c","o","n","t","e","n","t",
    "_","b","l","o","c","k","\"",":","{","\"","t","y","p","e","\"",":","\"","t","o","o","l","_",
    "u","s","e","\"",",","\"","i","d","\"",":","\"","t","1","\"",",","\"","n","a","m","e","\"",
    ":","\"","f","\"",",","\"","i","n","p","u","t","\"",":","{","}","}","}">>

\* data: {"type":"message_stop"}
AnthropicStop ==
  <<"d","a","t","a",":"," ","{","\"","t","y","p","e","\"",":","\"","m","e","s","s","a","g","e",
    "_","s","t","o","p","\"","}">>

\* data: {"type":
AnthropicMalformed ==
  <<"d","a","t","a",":"," ","{","\"","t","y","p","e","\"",":">>

\* data: {"type":"error","error":{"message":"x"}}
AnthropicError ==
  <<"d","a","t","a",":"," ","{","\"","t","y","p","e","\"",":","\"","e","r","r","o","r","\"",",",
    "\"","e","r","r","o","r","\"",":","{","\"","m","e","s","s","a","g","e","\"",":","\"","x",
    "\"","}","}">>

\* {"candidates":[{"content":{"parts":[{"text":"Hi"}]}}]}
GeminiToken ==
  <<"{","\"","c","a","n","d","i","d","a","t","e","s","\"",":","[","{","\"","c","o","n","t","e",
    "n","t","\"",":","{","\"","p","a","r","t","s","\"",":","[","{","\"","t","e","x","t","\"",
    ":","\"","H","i","\"","}","]","}","}","]","}">>

\* {"candidates":[{"content":{"parts":[{"text":"é"}]}}]}
GeminiTokenAccent ==
  <<"{","\"","c","a","n","d","i","d","a","t","e","s","\"",":","[","{","\"","c","o","n","t","e",
    "n","t","\"",":","{","\"","p","a","r","t","s","\"",":","[","{","\"","t","e","x","t","\"",
    ":","\"","xC3","xA9","\"","}","]","}","}","]","}">>

\* {"candidates":[{"content":{"parts":[{"functionCall":{"name":"f","args":{}}}]},"finishReason":"STOP"}]}
GeminiFunctionCall ==
  <<"{","\"","c","a","n","d","i","d","a","t","e","s","\"",":","[","{","\"","c","o","n","t","e",
    "n","t","\"",":","{","\"","p","a","r","t","s","\"",":","[","{","\"","f","u","n","c","t","i",
    "o","n","C","a","l","l","\"",":","{","\"","n","a","m","e","\"",":","\"","f","\"",",","\"",
    "a","r","g","s","\"",":","{","}","}","}","]","}",",","\"","f","i","n","i","s","h","R","e",
    "a","s","o","n","\"",":","\"","S","T","O","P","\"","}","]","}">>

\* {"candidates":[
GeminiMalformed ==
  <<"{","\"","c","a","n","d","i","d","a","t","e","s","\"",":","[">>

\* {"error":{"message":"x"}}
GeminiError ==
  <<"{","\"","e","r","r","o","r","\"",":","{","\"","m","e","s","s","a","g","e","\"",":","\"",
    "x","\"","}","}">>

\* {"candidates":[{"finishReason":"MAX_TOKENS"}]}
GeminiFinish ==
  <<"{","\"","c","a","n","d","i","d","a","t","e","s","\"",":","[","{","\"","f","i","n","i","s",
    "h","R","e","a","s","o","n","\"",":","\"","M","A","X","_","T","O","K","E","N","S","\"","}",
    "]","}">>

\* A line with no character.
BlankLine == <<>>

(***************************************************************************)
(* The state.                                                              *)
(***************************************************************************)

VARIABLES
  buffer,       \* StreamHandler.buffer
  isStreaming,  \* StreamHandler.isStreaming
  running,      \* the handleStream invocation that is executing, 0: none is
  frame,        \* per invocation: where it stands and its local variables
  promise,      \* per invocation: the promise handleStream returned
  calls,        \* per invocation: the callback calls made, in order
  toolRuns,     \* the tool executions started by onToolCall, in order
  hist,         \* per invocation: what its environment did (history)
  chat          \* per invocation: the Agentify.chat call that made it

vars ==
  <<buffer, isStreaming, running, frame, promise, calls, toolRuns, hist, chat>>

\* The number of handleStream invocations made on the one StreamHandler.
MaxInvocations == 2

Invocations == 1..MaxInvocations

\* The provider tags handleStream is called with ("custom" is any other tag).
Providers == {"openai", "deepseek", "anthropic", "gemini", "custom"}

\* The last call of processBuffer an invocation has made: the buffer text it
\* was given, the events it returned and the remainder it left.
NoDecode == [text |-> <<>>, events |-> <<>>, remainder |-> <<>>]

\* A frame before handleStream is called.
IdleFrame ==
  [pc |-> "idle", provider |-> "", reader |-> <<>>, decoder |-> <<>>,
   processed |-> <<>>, fullContent |-> <<>>, toolCalls |-> <<>>,
   thinkingContent |-> <<>>, error |-> NoError, result |-> Undefined,
   lastDecode |-> NoDecode]

NoHistory ==
  [delivered |-> <<>>, benign |-> TRUE, overlapped |-> FALSE, atRead |-> FALSE,
   stopped |-> FALSE, stopLimit |-> 0, stopPc |-> "", thrown |-> NoError]

PendingPromise == [state |-> "pending", value |-> Undefined]

\* A chat before Agentify.chat is called: no task, nothing reported, no
\* promise.
IdleChat ==
  [pc |-> "idle", stream |-> FALSE, task |-> <<>>, log |-> <<>>,
   toolCalls |-> <<>>, result |-> Undefined,
   promise |-> [state |-> "none", value |-> Undefined]]

InFlight(i) == frame[i].pc \notin {"idle", "settled"}

\* new StreamHandler(errorManager)
Init ==
  /\ buffer = <<>>
  /\ isStreaming = FALSE
  /\ running = 0
  /\ frame = [i \in Invocations |-> IdleFrame]
  /\ promise = [i \in Invocations |-> [state |-> "none", value |-> Undefined]]
  /\ calls = [i \in Invocations |-> <<>>]
  /\ toolRuns = <<>>
  /\ hist = [i \in Invocations |-> NoHistory]
  /\ chat = [i \in Invocations |-> IdleChat]

(***************************************************************************)
(* handleStream, one action per synchronous step.  An invocation runs      *)
(* without interleaving (running = its id) from one await to the next; it  *)
(* is suspended at `await reader.read()` (pc = "reading") and at           *)
(* `await this.processBuffer(provider)` (pc = "processing").               *)
(***************************************************************************)

\* What a callback does when it is called: return, throw an Error, throw a
\* StreamError, or call stopStream() and return.
Behaviours == {"return", "throwError", "throwStreamError", "stop"}

Throws(beh) == beh \in {"throwError", "throwStreamError"}

ThrownBy(beh) ==
  CallbackError(IF beh = "throwStreamError" THEN "StreamError" ELSE "Error")

\* toolCall.arguments, as Agentify's onToolCall reads it.
ToolCallArguments(data) ==
  IF "arguments" \in DOMAIN data THEN data.arguments ELSE Undefined

\* A read loop that awaits the promise onToolCall returns.
ToolCallAwaited == TRUE

\* Whether the read loop waits for the promise onToolCall returns:
\* `onToolCall(item.data);` has no await.
ToolCallAwaitedByLoop == FALSE

\* Whether invocation i has started a tool execution that has not settled.
HasPendingTool(i) ==
  \E k \in 1..Len(toolRuns) : toolRuns[k].inv = i /\ toolRuns[k].state = "pending"

LoopMayProceed(i) == ~(ToolCallAwaitedByLoop /\ HasPendingTool(i))

\* An entry of handleStream that leaves the flag as the stream before left
\* it.
HandleStreamKeepsFlag(i, provider, chunks) ==
  /\ running = 0
  /\ frame[i].pc = "idle"
  /\ \A j \in Invocations : j < i => frame[j].pc # "idle"
  /\ buffer' = <<>>
  /\ running' = i
  /\ frame' = [frame EXCEPT ![i] =
                 [IdleFrame EXCEPT !.pc = "loop", !.provider = provider,
                                   !.reader = chunks]]
  /\ promise' = [promise EXCEPT ![i] = PendingPromise]
  /\ UNCHANGED <<isStreaming, calls, toolRuns, hist>>

\* The entry of handleStream: this.isStreaming = true; this.buffer = ''; the
\* reader, the decoder and the accumulators are fresh locals.
HandleStream(i, provider, chunks) ==
  /\ running = 0
  /\ frame[i].pc = "idle"
  /\ \A j \in Invocations : j < i => frame[j].pc # "idle"
  /\ isStreaming' = TRUE
  /\ buffer' = <<>>
  /\ running' = i
  /\ frame' = [frame EXCEPT ![i] =
                 [IdleFrame EXCEPT !.pc = "loop", !.provider = provider,
                                   !.reader = chunks]]
  /\ promise' = [promise EXCEPT ![i] = PendingPromise]
  /\ hist' = [j \in Invocations |->
                IF j = i
                THEN [hist[j] EXCEPT !.overlapped =
                        \E k \in Invocations \ {i} : InFlight(k)]
                ELSE IF InFlight(j)
                     THEN [hist[j] EXCEPT !.overlapped = TRUE,
                                          !.atRead = @ \/ frame[j].pc = "reading"]
                     ELSE hist[j]]
  /\ UNCHANGED <<calls, toolRuns>>

\* A loop test that does not look at the flag: while (true).
WhileTrue(i) ==
  /\ running = i
  /\ frame[i].pc = "loop"
  /\ LoopMayProceed(i)
  /\ frame' = [frame EXCEPT ![i].pc = "reading"]
  /\ running' = 0
  /\ UNCHANGED <<buffer, isStreaming, promise, calls, toolRuns, hist>>

\* while (this.isStreaming): into the read, or out of the loop.
WhileIsStreaming(i) ==
  /\ running = i
  /\ frame[i].pc = "loop"
  /\ LoopMayProceed(i)
  /\ IF isStreaming
     THEN /\ frame' = [frame EXCEPT ![i].pc = "reading"]
          /\ running' = 0
     ELSE /\ frame' = [frame EXCEPT ![i].pc = "complete"]
          /\ running' = i
  /\ UNCHANGED <<buffer, isStreaming, promise, calls, toolRuns, hist>>

\* A read that replaces the buffer by the chunk (this.buffer = chunk).
ReaderReadValueOverwrites(i) ==
  /\ running = 0
  /\ frame[i].pc = "reading"
  /\ frame[i].reader # <<>>
  /\ LET f == frame[i]
         value == Head(f.reader)
         chunk == TextDecoderDecode(f.decoder, value)
         decoded == ProcessBuffer(chunk.out, f.provider)
     IN /\ buffer' = decoded.buffer
        /\ frame' = [frame EXCEPT ![i] =
                       [f EXCEPT !.pc = "processing", !.reader = Tail(f.reader),
                                 !.decoder = chunk.pending,
                                 !.processed = decoded.processed,
                                 !.lastDecode = [text |-> chunk.out,
                                                 events |-> decoded.processed,
                                                 remainder |-> decoded.buffer]]]
        /\ hist' = [hist EXCEPT ![i].delivered = Append(@, value)]
  /\ UNCHANGED <<isStreaming, running, promise, calls, toolRuns>>

\* A read whose decoder remembers the tool calls the instance has recorded
\* and emits no tool_call for a call it has emitted before.
ReaderReadValueRemembers(i) ==
  /\ running = 0
  /\ frame[i].pc = "reading"
  /\ frame[i].reader # <<>>
  /\ LET f == frame[i]
         value == Head(f.reader)
         chunk == TextDecoderDecode(f.decoder, value)
         decoded == ProcessBuffer(buffer \o chunk.out, f.provider)
         seen == UNION {{frame[j].toolCalls[k] : k \in 1..Len(frame[j].toolCalls)} :
                          j \in Invocations}
         events == SelectSeq(decoded.processed,
                             LAMBDA item : ~(item.type = "tool_call" /\ item.data \in seen))
     IN /\ buffer' = decoded.buffer
        /\ frame' = [frame EXCEPT ![i] =
                       [f EXCEPT !.pc = "processing", !.reader = Tail(f.reader),
                                 !.decoder = chunk.pending,
                                 !.processed = events,
                                 !.lastDecode = [text |-> buffer \o chunk.out,
                                                 events |-> events,
                                                 remainder |-> decoded.buffer]]]
        /\ hist' = [hist EXCEPT ![i].delivered = Append(@, value)]
  /\ UNCHANGED <<isStreaming, running, promise, calls, toolRuns>>

\* reader.read() resolves with a chunk: decode it, append it to the buffer
\* and call processBuffer; the invocation is then suspended at the await of
\* processBuffer's promise.
ReaderReadValue(i) ==
  /\ running = 0
  /\ frame[i].pc = "reading"
  /\ frame[i].reader # <<>>
  /\ LET f == frame[i]
         value == Head(f.reader)
         chunk == TextDecoderDecode(f.decoder, value)
         decoded == ProcessBuffer(buffer \o chunk.out, f.provider)
     IN /\ buffer' = decoded.buffer
        /\ frame' = [frame EXCEPT ![i] =
                       [f EXCEPT !.pc = "processing", !.reader = Tail(f.reader),
                                 !.decoder = chunk.pending,
                                 !.processed = decoded.processed,
                                 !.lastDecode = [text |-> buffer \o chunk.out,
                                                 events |-> decoded.processed,
                                                 remainder |-> decoded.buffer]]]
        /\ hist' = [hist EXCEPT ![i].delivered = Append(@, value)]
  /\ UNCHANGED <<isStreaming, running, promise, calls, toolRuns>>

\* A read loop that takes no notice of done and reads again.
ReaderReadDoneIgnored(i) ==
  /\ running = 0
  /\ frame[i].pc = "reading"
  /\ frame[i].reader = <<>>
  /\ frame' = [frame EXCEPT ![i].pc = "loop"]
  /\ running' = i
  /\ UNCHANGED <<buffer, isStreaming, promise, calls, toolRuns, hist>>

\* An end of data that decodes what is left in the buffer as a last line
\* before the loop is left.
ReaderReadDoneFlushes(i) ==
  /\ running = 0
  /\ frame[i].pc = "reading"
  /\ frame[i].reader = <<>>
  /\ LET last == ProcessBuffer(buffer \o <<"\n">>, frame[i].provider).processed
     IN frame' = [frame EXCEPT ![i].pc = IF last = <<>> THEN "complete" ELSE "dispatch",
                               ![i].processed = last]
  /\ buffer' = <<>>
  /\ running' = i
  /\ UNCHANGED <<isStreaming, promise, calls, toolRuns, hist>>

\* reader.read() resolves with done: break.
ReaderReadDone(i) ==
  /\ running = 0
  /\ frame[i].pc = "reading"
  /\ frame[i].reader = <<>>
  /\ frame' = [frame EXCEPT ![i].pc = "complete"]
  /\ running' = i
  /\ UNCHANGED <<buffer, isStreaming, promise, calls, toolRuns, hist>>

\* reader.read() rejects: the transport failed.
ReaderReadRejects(i) ==
  /\ running = 0
  /\ frame[i].pc = "reading"
  /\ frame' = [frame EXCEPT ![i].pc = "catch", ![i].error = TransportError]
  /\ running' = i
  /\ hist' = [hist EXCEPT ![i].benign = FALSE, ![i].thrown = TransportError]
  /\ UNCHANGED <<buffer, isStreaming, promise, calls, toolRuns>>

\* A resume that leaves the thread to the other tasks: the for loop is
\* entered suspended.
ProcessBufferResumesSuspended(i) ==
  /\ running = 0
  /\ frame[i].pc = "processing"
  /\ frame' = [frame EXCEPT ![i].pc =
                 IF frame[i].processed = <<>> THEN "loop" ELSE "dispatch"]
  /\ running' = IF frame[i].processed = <<>> THEN i ELSE 0
  /\ UNCHANGED <<buffer, isStreaming, promise, calls, toolRuns, hist>>

\* The await of processBuffer's promise resumes: on to the for loop.
ProcessBufferResumes(i) ==
  /\ running = 0
  /\ frame[i].pc = "processing"
  /\ frame' = [frame EXCEPT ![i].pc =
                 IF frame[i].processed = <<>> THEN "loop" ELSE "dispatch"]
  /\ running' = i
  /\ UNCHANGED <<buffer, isStreaming, promise, calls, toolRuns, hist>>

\* The callback call an item makes, <<>> when it makes none.
ItemCall(item) ==
  CASE item.type = "token" -> <<[cb |-> "onToken", arg |-> item.content]>>
    [] item.type = "thinking" ->
         <<[cb |-> "onThinking", arg |-> FormatThinkingContent(item.content)]>>
    [] item.type = "tool_call" -> <<[cb |-> "onToolCall", arg |-> item.data]>>
    [] OTHER -> <<>>

\* Accumulators that keep the newest token only: fullContent = item.content.
AccumulateNewest(f, item) ==
  CASE item.type = "token" ->
         [f EXCEPT !.fullContent = ToJsString(item.content)]
    [] item.type = "thinking" ->
         [f EXCEPT !.thinkingContent = @ \o ToJsString(item.content)]
    [] item.type = "tool_call" ->
         [f EXCEPT !.toolCalls = Append(@, item.data)]
    [] OTHER -> f

\* Accumulators that merge a fragment without an id into the last recorded
\* call: its arguments are appended to that call's arguments.
AccumulateMergesFragments(f, item) ==
  CASE item.type = "token" ->
         [f EXCEPT !.fullContent = @ \o ToJsString(item.content)]
    [] item.type = "thinking" ->
         [f EXCEPT !.thinkingContent = @ \o ToJsString(item.content)]
    [] item.type = "tool_call" ->
         IF item.data.id = Undefined /\ f.toolCalls # <<>>
         THEN LET last == f.toolCalls[Len(f.toolCalls)] IN
              [f EXCEPT !.toolCalls[Len(f.toolCalls)] =
                 [last EXCEPT !.arguments =
                    Str(ToJsString(last.arguments) \o ToJsString(item.data.arguments))]]
         ELSE [f EXCEPT !.toolCalls = Append(@, item.data)]
    [] OTHER -> f

\* The accumulators after an item: fullContent += item.content,
\* thinkingContent += item.content, toolCalls.push(item.data).
Accumulate(f, item) ==
  CASE item.type = "token" ->
         [f EXCEPT !.fullContent = @ \o ToJsString(item.content)]
    [] item.type = "thinking" ->
         [f EXCEPT !.thinkingContent = @ \o ToJsString(item.content)]
    [] item.type = "tool_call" ->
         [f EXCEPT !.toolCalls = Append(@, item.data)]
    [] OTHER -> f

\* A dispatch that executes every tool call, registered or not.
ToolLaunchUnconditional(i, data) ==
  <<[inv |-> i, name |-> data.name, arguments |-> ToolCallArguments(data),
     state |-> "pending"]>>

\* Agentify's onToolCall up to its await: the tool execution it starts when
\* the registry has the tool, <<>> otherwise.
ToolLaunch(i, data) ==
  IF HasTool(data.name)
  THEN <<[inv |-> i, name |-> data.name, arguments |-> ToolCallArguments(data),
          state |-> "pending"]>>
  ELSE <<>>

\* A dispatch in which a finish item clears the streaming flag.
DispatchItemFinishEnds(i, beh) ==
  /\ running = i
  /\ frame[i].pc = "dispatch"
  /\ LoopMayProceed(i)
  /\ LET f == frame[i]
         item == Head(f.processed)
         rest == Tail(f.processed)
         call == ItemCall(item)
         acc == Accumulate(f, item)
     IN /\ (call = <<>> => beh = "return")
        /\ calls' = [calls EXCEPT ![i] = @ \o call]
        /\ frame' = [frame EXCEPT ![i] =
             IF item.type = "error"
             THEN [f EXCEPT !.pc = "catch",
                            !.error = CreateStreamError("Stream error received",
                                                        "PARSE_FAILED", item.data)]
             ELSE IF Throws(beh)
                  THEN [acc EXCEPT !.pc = "catch", !.error = ThrownBy(beh)]
                  ELSE [acc EXCEPT !.processed = rest,
                                   !.pc = IF rest = <<>> THEN "loop" ELSE "dispatch"]]
        /\ isStreaming' = IF beh = "stop" \/ item.type = "finish"
                       THEN FALSE ELSE isStreaming
        /\ toolRuns' = IF item.type = "tool_call" /\ ~Throws(beh)
                       THEN toolRuns \o ToolLaunch(i, item.data)
                       ELSE toolRuns
        /\ hist' = [hist EXCEPT ![i] =
             IF Throws(beh)
             THEN [hist[i] EXCEPT !.benign = FALSE, !.thrown = ThrownBy(beh)]
             ELSE IF beh = "stop" /\ ~hist[i].stopped
                  THEN [hist[i] EXCEPT !.stopped = TRUE, !.stopPc = "dispatch",
                                       !.stopLimit = Len(hist[i].delivered)]
                  ELSE hist[i]]
  /\ UNCHANGED <<buffer, running, promise>>

\* A dispatch that tests the flag after every item and leaves the for loop
\* once the stream was stopped.
DispatchItemChecksFlag(i, beh) ==
  /\ running = i
  /\ frame[i].pc = "dispatch"
  /\ LoopMayProceed(i)
  /\ LET f == frame[i]
         item == Head(f.processed)
         rest == Tail(f.processed)
         call == ItemCall(item)
         acc == Accumulate(f, item)
         flag == IF beh = "stop" THEN FALSE ELSE isStreaming
     IN /\ (call = <<>> => beh = "return")
        /\ calls' = [calls EXCEPT ![i] = @ \o call]
        /\ frame' = [frame EXCEPT ![i] =
             IF item.type = "error"
             THEN [f EXCEPT !.pc = "catch",
                            !.error = CreateStreamError("Stream error received",
                                                        "PARSE_FAILED", item.data)]
             ELSE IF Throws(beh)
                  THEN [acc EXCEPT !.pc = "catch", !.error = ThrownBy(beh)]
                  ELSE [acc EXCEPT !.processed = rest,
                                   !.pc = IF rest = <<>> \/ ~flag
                                          THEN "loop" ELSE "dispatch"]]
        /\ isStreaming' = flag
        /\ toolRuns' = IF item.type = "tool_call" /\ ~Throws(beh)
                       THEN toolRuns \o ToolLaunch(i, item.data)
                       ELSE toolRuns
        /\ hist' = [hist EXCEPT ![i] =
             IF Throws(beh)
             THEN [hist[i] EXCEPT !.benign = FALSE, !.thrown = ThrownBy(beh)]
             ELSE IF beh = "stop" /\ ~hist[i].stopped
                  THEN [hist[i] EXCEPT !.stopped = TRUE, !.stopPc = "dispatch",
                                       !.stopLimit = Len(hist[i].delivered)]
                  ELSE hist[i]]
  /\ UNCHANGED <<buffer, running, promise>>

\* One iteration of `for (const item of processed)`, the callback behaving
\* as beh.
DispatchItem(i, beh) ==
  /\ running = i
  /\ frame[i].pc = "dispatch"
  /\ LoopMayProceed(i)
  /\ LET f == frame[i]
         item == Head(f.processed)
         rest == Tail(f.processed)
         call == ItemCall(item)
         acc == Accumulate(f, item)
     IN /\ (call = <<>> => beh = "return")
        /\ calls' = [calls EXCEPT ![i] = @ \o call]
        /\ frame' = [frame EXCEPT ![i] =
             IF item.type = "error"
             THEN [f EXCEPT !.pc = "catch",
                            !.error = CreateStreamError("Stream error received",
                                                        "PARSE_FAILED", item.data)]
             ELSE IF Throws(beh)
                  THEN [acc EXCEPT !.pc = "catch", !.error = ThrownBy(beh)]
                  ELSE [acc EXCEPT !.processed = rest,
                                   !.pc = IF rest = <<>> THEN "loop" ELSE "dispatch"]]
        /\ isStreaming' = IF beh = "stop" THEN FALSE ELSE isStreaming
        /\ toolRuns' = IF item.type = "tool_call" /\ ~Throws(beh)
                       THEN toolRuns \o ToolLaunch(i, item.data)
                       ELSE toolRuns
        /\ hist' = [hist EXCEPT ![i] =
             IF Throws(beh)
             THEN [hist[i] EXCEPT !.benign = FALSE, !.thrown = ThrownBy(beh)]
             ELSE IF beh = "stop" /\ ~hist[i].stopped
                  THEN [hist[i] EXCEPT !.stopped = TRUE, !.stopPc = "dispatch",
                                       !.stopLimit = Len(hist[i].delivered)]
                  ELSE hist[i]]
  /\ UNCHANGED <<buffer, running, promise>>

\* A result that surfaces the reason of the last finish the stream decoded.
OnCompleteSurfacesReason(i, beh) ==
  /\ running = i
  /\ frame[i].pc = "complete"
  /\ LET f == frame[i]
         text == DecodeFrom(<<>>, Flatten(hist[i].delivered)).out
         finishes == SelectSeq(ProcessBuffer(text, f.provider).processed,
                               LAMBDA item : item.type = "finish")
         result == [content |-> f.fullContent, toolCalls |-> f.toolCalls,
                    thinkingContent |-> f.thinkingContent,
                    finishReason |->
                      IF finishes = <<>> THEN "stop"
                      ELSE IF ToJsString(finishes[Len(finishes)].reason)
                                = <<"s", "t", "o", "p">>
                           THEN "stop" ELSE "not stop"]
     IN /\ calls' = [calls EXCEPT ![i] = Append(@, [cb |-> "onComplete", arg |-> result])]
        /\ frame' = [frame EXCEPT ![i] =
             IF Throws(beh)
             THEN [f EXCEPT !.pc = "catch", !.error = ThrownBy(beh)]
             ELSE [f EXCEPT !.pc = "finally", !.result = result]]
  /\ isStreaming' = IF beh = "stop" THEN FALSE ELSE isStreaming
  /\ hist' = [hist EXCEPT ![i] =
                IF Throws(beh)
                THEN [hist[i] EXCEPT !.benign = FALSE, !.thrown = ThrownBy(beh)]
                ELSE hist[i]]
  /\ UNCHANGED <<buffer, running, promise, toolRuns>>

\* After the loop: the result is built and passed to onComplete, which
\* behaves as beh.
OnComplete(i, beh) ==
  /\ running = i
  /\ frame[i].pc = "complete"
  /\ LET f == frame[i]
         result == [content |-> f.fullContent, toolCalls |-> f.toolCalls,
                    thinkingContent |-> f.thinkingContent, finishReason |-> "stop"]
     IN /\ calls' = [calls EXCEPT ![i] = Append(@, [cb |-> "onComplete", arg |-> result])]
        /\ frame' = [frame EXCEPT ![i] =
             IF Throws(beh)
             THEN [f EXCEPT !.pc = "catch", !.error = ThrownBy(beh)]
             ELSE [f EXCEPT !.pc = "finally", !.result = result]]
  /\ isStreaming' = IF beh = "stop" THEN FALSE ELSE isStreaming
  /\ hist' = [hist EXCEPT ![i] =
                IF Throws(beh)
                THEN [hist[i] EXCEPT !.benign = FALSE, !.thrown = ThrownBy(beh)]
                ELSE hist[i]]
  /\ UNCHANGED <<buffer, running, promise, toolRuns>>

\* A catch block that wraps every error.
CatchErrorAlwaysWraps(error) ==
  CreateStreamError("Stream processing failed", "PARSE_FAILED", error.message)

\* The error the catch block reports and rethrows: a StreamError as it is,
\* anything else wrapped.
CatchError(error) ==
  IF error.cls = "StreamError" THEN error
  ELSE CreateStreamError("Stream processing failed", "PARSE_FAILED", error.message)

\* A catch block whose first branch does not throw: the error is reported to
\* onError as it is and once more as the catch block rethrows it.
CatchReportsTwice(i) ==
  /\ running = i
  /\ frame[i].pc = "catch"
  /\ isStreaming' = FALSE
  /\ calls' = [calls EXCEPT ![i] =
                 @ \o <<[cb |-> "onError", arg |-> frame[i].error],
                        [cb |-> "onError", arg |-> CatchError(frame[i].error)]>>]
  /\ frame' = [frame EXCEPT ![i].pc = "finally",
                            ![i].error = CatchError(frame[i].error)]
  /\ UNCHANGED <<buffer, running, promise, toolRuns, hist>>

\* catch (error): this.isStreaming = false; onError(...); throw.
Catch(i) ==
  /\ running = i
  /\ frame[i].pc = "catch"
  /\ isStreaming' = FALSE
  /\ calls' = [calls EXCEPT ![i] =
                 Append(@, [cb |-> "onError", arg |-> CatchError(frame[i].error)])]
  /\ frame' = [frame EXCEPT ![i].pc = "finally",
                            ![i].error = CatchError(frame[i].error)]
  /\ UNCHANGED <<buffer, running, promise, toolRuns, hist>>

\* A finally block without `this.buffer = ''`.
FinallyKeepsBuffer(i) ==
  /\ running = i
  /\ frame[i].pc = "finally"
  /\ isStreaming' = FALSE
  /\ frame' = [frame EXCEPT ![i].pc = "settled"]
  /\ promise' = [promise EXCEPT ![i] =
                   IF frame[i].error = NoError
                   THEN [state |-> "resolved", value |-> frame[i].result]
                   ELSE [state |-> "rejected", value |-> frame[i].error]]
  /\ running' = 0
  /\ UNCHANGED <<buffer, calls, toolRuns, hist>>

\* finally: this.isStreaming = false; this.buffer = ''; the promise settles.
Finally(i) ==
  /\ running = i
  /\ frame[i].pc = "finally"
  /\ isStreaming' = FALSE
  /\ buffer' = <<>>
  /\ frame' = [frame EXCEPT ![i].pc = "settled"]
  /\ promise' = [promise EXCEPT ![i] =
                   IF frame[i].error = NoError
                   THEN [state |-> "resolved", value |-> frame[i].result]
                   ELSE [state |-> "rejected", value |-> frame[i].error]]
  /\ running' = 0
  /\ UNCHANGED <<calls, toolRuns, hist>>

\* A stopStream() that cancels the pending read: the loop of a stream that
\* stands at the read is left at once.
StopStreamCancelsRead ==
  /\ running = 0
  /\ \E i \in Invocations : InFlight(i)
  /\ isStreaming' = FALSE
  /\ frame' = [j \in Invocations |->
                 IF frame[j].pc = "reading" /\ j = 1
                 THEN [frame[j] EXCEPT !.pc = "complete"] ELSE frame[j]]
  /\ running' = IF frame[1].pc = "reading" THEN 1 ELSE 0
  /\ hist' = [j \in Invocations |->
                IF InFlight(j) /\ ~hist[j].stopped
                THEN [hist[j] EXCEPT
                        !.stopped = TRUE, !.stopPc = frame[j].pc,
                        !.stopLimit = Len(hist[j].delivered)
                                      + (IF frame[j].pc = "reading" THEN 1 ELSE 0)]
                ELSE hist[j]]
  /\ UNCHANGED <<buffer, promise, calls, toolRuns>>

\* stopStream(), called by another task while a stream is in flight.
StopStream ==
  /\ running = 0
  /\ \E i \in Invocations : InFlight(i)
  /\ isStreaming' = FALSE
  /\ hist' = [j \in Invocations |->
                IF InFlight(j) /\ ~hist[j].stopped
                THEN [hist[j] EXCEPT
                        !.stopped = TRUE, !.stopPc = frame[j].pc,
                        !.stopLimit = Len(hist[j].delivered)
                                      + (IF frame[j].pc = "reading" THEN 1 ELSE 0)]
                ELSE hist[j]]
  /\ UNCHANGED <<buffer, running, frame, promise, calls, toolRuns>>

\* A tool execution whose failure is handed to the onError of the stream.
ToolSettlesReportsToStream(k, state) ==
  /\ running = 0
  /\ k \in 1..Len(toolRuns)
  /\ toolRuns[k].state = "pending"
  /\ toolRuns' = [toolRuns EXCEPT ![k].state = state]
  /\ calls' = IF state = "rejected"
              THEN [calls EXCEPT ![toolRuns[k].inv] =
                      Append(@, [cb |-> "onError", arg |-> TransportError])]
              ELSE calls
  /\ UNCHANGED <<buffer, isStreaming, running, frame, promise, hist>>

\* The promise of executeTool settles: the tool execution k ends.
ToolSettles(k, state) ==
  /\ running = 0
  /\ k \in 1..Len(toolRuns)
  /\ toolRuns[k].state = "pending"
  /\ toolRuns' = [toolRuns EXCEPT ![k].state = state]
  /\ UNCHANGED <<buffer, isStreaming, running, frame, promise, calls, hist>>

\* isCurrentlyStreaming()
IsCurrentlyStreaming == isStreaming

\* getBuffer()
GetBuffer == buffer

(***************************************************************************)
(* The inputs: what the transports deliver.                                *)
(***************************************************************************)

\* The wire text of lines, each ended by a newline.
Wire(lines) == Flatten([k \in 1..Len(lines) |-> lines[k] \o <<"\n">>])

\* The payload cut into two chunks after k bytes.
CutAt(payload, k) ==
  <<SubSeq(payload, 1, k), SubSeq(payload, k + 1, Len(payload))>>

\* The decoder family of a provider tag.
Family(provider) ==
  CASE provider = "anthropic" -> "anthropic"
    [] provider = "gemini" -> "gemini"
    [] OTHER -> "openai"

TokenLine(provider) ==
  CASE Family(provider) = "anthropic" -> AnthropicToken
    [] Family(provider) = "gemini" -> GeminiToken
    [] OTHER -> OpenAIToken

AccentLine(provider) ==
  CASE Family(provider) = "anthropic" -> AnthropicTokenAccent
    [] Family(provider) = "gemini" -> GeminiTokenAccent
    [] OTHER -> OpenAITokenAccent

ToolLine(provider) ==
  CASE Family(provider) = "anthropic" -> AnthropicToolUse
    [] Family(provider) = "gemini" -> GeminiFunctionCall
    [] OTHER -> OpenAIToolCall

MalformedLine(provider) ==
  CASE Family(provider) = "anthropic" -> AnthropicMalformed
    [] Family(provider) = "gemini" -> GeminiMalformed
    [] OTHER -> OpenAIMalformed

ErrorLine(provider) ==
  CASE Family(provider) = "anthropic" -> AnthropicError
    [] Family(provider) = "gemini" -> GeminiError
    [] OTHER -> OpenAIError

\* The lines that announce the end of the answer: the finish of each
\* provider, with a reason other than 'stop' where the provider names one,
\* and the end marker of OpenAI.
FinishLines(provider) ==
  CASE Family(provider) = "anthropic" -> <<AnthropicStop>>
    [] Family(provider) = "gemini" -> <<GeminiFinish>>
    [] OTHER -> <<OpenAIFinish, OpenAIDone>>

\* The provider tags of the streams of Spec.
StreamProviders == {"openai", "anthropic", "gemini"}

\* The lines of a short stream as the provider frames it: event names, blank
\* separators, a fragment of tool-call arguments, the finish and the end
\* marker.
FramedLines(provider) ==
  CASE Family(provider) = "anthropic" ->
         <<AnthropicEvent, AnthropicToken, BlankLine, AnthropicStop>>
    [] Family(provider) = "gemini" -> <<GeminiToken, BlankLine>>
    [] OTHER ->
         <<OpenAIToken, BlankLine, OpenAIToolFragment, OpenAIFinish, OpenAIDone>>

\* The transports of Spec: a finish, a tool call, a token cut in two and an
\* unterminated last line; a token, a malformed line, an in-band error and a token whose
\* two-byte character is cut in two; a short framed stream in one chunk.
StreamTransports(provider) ==
  LET head == Wire(FinishLines(provider) \o <<ToolLine(provider)>>)
      first == head \o Wire(<<TokenLine(provider)>>) \o AccentLine(provider)
      second == Wire(<<TokenLine(provider), MalformedLine(provider),
                       ErrorLine(provider), AccentLine(provider)>>)
  IN {CutAt(first, Len(head) + 8),
      CutAt(second, Len(second) - 6),
      <<Wire(FramedLines(provider))>>}

(***************************************************************************)
(* handleStream on a fresh instance, in one piece: what an invocation      *)
(* returns and the callback calls it makes when it runs alone, every       *)
(* callback returns, every read delivers the next chunk and nothing stops  *)
(* the stream.                                                             *)
(***************************************************************************)

\* The for loop over the items of one decode pass.
RECURSIVE DispatchAll(_, _)
DispatchAll(st, items) ==
  IF items = <<>> THEN st
  ELSE DispatchAll([f |-> Accumulate(st.f, Head(items)), buffer |-> st.buffer,
                    calls |-> st.calls \o ItemCall(Head(items))],
                   Tail(items))

\* The while loop over the chunks.
RECURSIVE ReadAll(_, _)
ReadAll(st, chunks) ==
  IF chunks = <<>> THEN st
  ELSE LET chunk == TextDecoderDecode(st.f.decoder, Head(chunks))
           decoded == ProcessBuffer(st.buffer \o chunk.out, st.f.provider)
       IN ReadAll(DispatchAll([f |-> [st.f EXCEPT !.decoder = chunk.pending],
                               buffer |-> decoded.buffer, calls |-> st.calls],
                              decoded.processed),
                  Tail(chunks))

RunAlone(provider, chunks) ==
  LET st == ReadAll([f |-> [IdleFrame EXCEPT !.provider = provider],
                     buffer |-> <<>>, calls |-> <<>>], chunks)
      result == [content |-> st.f.fullContent, toolCalls |-> st.f.toolCalls,
                 thinkingContent |-> st.f.thinkingContent, finishReason |-> "stop"]
  IN [result |-> result,
      calls |-> Append(st.calls, [cb |-> "onComplete", arg |-> result])]

(***************************************************************************)
(* Spec: the streams of one StreamHandler whose caller keeps one stream in *)
(* flight at a time.  The first stream meets every environment: callbacks  *)
(* that return, throw or call stopStream, a transport that delivers, ends  *)
(* or fails, stopStream from another task; the streams after it run        *)
(* undisturbed.  Tool executions settle at any time.                       *)
(***************************************************************************)

NoneInFlight == \A j \in Invocations : ~InFlight(j)

Next ==
  \/ /\ running = 0
     /\ UNCHANGED chat
     /\ NoneInFlight
     /\ \E i \in Invocations, p \in StreamProviders :
          \E chunks \in StreamTransports(p) : HandleStream(i, p, chunks)
  \/ \E i \in Invocations : WhileIsStreaming(i) /\ UNCHANGED chat
  \/ \E i \in Invocations : ReaderReadValue(i) /\ UNCHANGED chat
  \/ \E i \in Invocations : ReaderReadDone(i) /\ UNCHANGED chat
  \/ ReaderReadRejects(1) /\ UNCHANGED chat
  \/ \E i \in Invocations : ProcessBufferResumes(i) /\ UNCHANGED chat
  \/ \E beh \in Behaviours : DispatchItem(1, beh) /\ UNCHANGED chat
  \/ \E i \in Invocations \ {1} : DispatchItem(i, "return") /\ UNCHANGED chat
  \/ \E beh \in Behaviours : OnComplete(1, beh) /\ UNCHANGED chat
  \/ \E i \in Invocations \ {1} : OnComplete(i, "return") /\ UNCHANGED chat
  \/ \E i \in Invocations : Catch(i) /\ UNCHANGED chat
  \/ \E i \in Invocations : Finally(i) /\ UNCHANGED chat
  \/ InFlight(1) /\ StopStream /\ UNCHANGED chat
  \/ \E k \in 1..Len(toolRuns), state \in {"resolved", "rejected"} :
       ToolSettles(k, state) /\ UNCHANGED chat

Spec == Init /\ [][Next]_vars

(***************************************************************************)
(* SpecSplit: one undisturbed stream on a fresh instance, whose transport  *)
(* delivers a payload of complete lines either whole or cut in two at any  *)
(* byte offset.                                                            *)
(***************************************************************************)

\* The number of lines of a payload.
MaxLines == 2

\* The lines the payloads are made of.
SplitLines(provider) ==
  {TokenLine(provider), AccentLine(provider), ToolLine(provider),
   MalformedLine(provider)}

\* A token, a blank line, the end marker `data: [DONE]` and a blank line.
DoneFixture(provider) ==
  Wire(<<TokenLine(provider), BlankLine, OpenAIDone, BlankLine>>)

\* A tool call that arrives as three fragments: the first names the call and
\* the function, the next two carry pieces of the arguments.
FragmentFixture ==
  Wire(<<OpenAIToolCall, OpenAIToolFragment, OpenAIToolFragment>>)

\* The payloads of a provider tag: up to MaxLines lines for the three tags
\* with a decoder of their own, one line for the tags that share the OpenAI
\* decoder; the fixture with blank lines and the end marker; and, for the
\* delta-style providers, the call in fragments.
SplitPayloads(provider) ==
  {Wire(ls) : ls \in UNION {[1..n -> SplitLines(provider)] :
                              n \in 1..(IF provider \in StreamProviders
                                        THEN MaxLines ELSE 1)}}
    \cup {DoneFixture(provider)}
    \cup (IF provider \in {"openai", "deepseek"} THEN {FragmentFixture} ELSE {})

SplitTransports(provider) ==
  UNION {{<<payload>>} \cup {CutAt(payload, k) : k \in 1..(Len(payload) - 1)} :
           payload \in SplitPayloads(provider)}

NextSplit ==
  \/ /\ frame[1].pc = "idle"
     /\ UNCHANGED chat
     /\ \E p \in Providers :
          \E chunks \in SplitTransports(p) : HandleStream(1, p, chunks)
  \/ WhileIsStreaming(1) /\ UNCHANGED chat
  \/ ReaderReadValue(1) /\ UNCHANGED chat
  \/ ReaderReadDone(1) /\ UNCHANGED chat
  \/ ProcessBufferResumes(1) /\ UNCHANGED chat
  \/ DispatchItem(1, "return") /\ UNCHANGED chat
  \/ OnComplete(1, "return") /\ UNCHANGED chat
  \/ Finally(1) /\ UNCHANGED chat

SpecSplit == Init /\ [][NextSplit]_vars

(***************************************************************************)
(* SpecOverlap: two undisturbed streams on one instance, the second        *)
(* started at any time, also while the first is suspended.                 *)
(***************************************************************************)

OverlapInvocations == {1, 2}

NextOverlap ==
  \/ /\ running = 0
     /\ UNCHANGED chat
     /\ \E i \in OverlapInvocations, p \in StreamProviders :
          \E chunks \in StreamTransports(p) : HandleStream(i, p, chunks)
  \/ \E i \in OverlapInvocations : WhileIsStreaming(i) /\ UNCHANGED chat
  \/ \E i \in OverlapInvocations : ReaderReadValue(i) /\ UNCHANGED chat
  \/ \E i \in OverlapInvocations : ReaderReadDone(i) /\ UNCHANGED chat
  \/ \E i \in OverlapInvocations : ProcessBufferResumes(i) /\ UNCHANGED chat
  \/ \E i \in OverlapInvocations : DispatchItem(i, "return") /\ UNCHANGED chat
  \/ \E i \in OverlapInvocations : OnComplete(i, "return") /\ UNCHANGED chat
  \/ \E i \in OverlapInvocations : Finally(i) /\ UNCHANGED chat

SpecOverlap == Init /\ [][NextOverlap]_vars

(***************************************************************************)
(* Properties of the decoding of one stream (SpecSplit).                   *)
(***************************************************************************)

\* C1: split-invariance.  For every provider tag and every payload, the
\* stream whose transport delivered the payload in two chunks, cut at any
\* byte offset, settles with the same content, the same toolCalls in the same
\* order and the same thinkingContent, and has made the same sequence of
\* onToken and onToolCall calls, as handleStream on a transport that delivers
\* the whole payload as one chunk.
C1_SplitInvariance ==
  \A i \in Invocations :
    frame[i].pc = "settled" =>
      LET whole == RunAlone(frame[i].provider, <<Flatten(hist[i].delivered)>>)
          dispatched(cs) ==
            SelectSeq(cs, LAMBDA c : c.cb \in {"onToken", "onToolCall"})
      IN /\ promise[i].state = "resolved"
         /\ promise[i].value.content = whole.result.content
         /\ promise[i].value.toolCalls = whole.result.toolCalls
         /\ promise[i].value.thinkingContent = whole.result.thinkingContent
         /\ dispatched(calls[i]) = dispatched(whole.calls)

\* A settled stream of two chunks, cut between the two bytes of a character
\* of a token, which carried a tool call and a token.
C1_Witness ==
  /\ frame[1].pc = "settled"
  /\ Len(hist[1].delivered) = 2
  /\ hist[1].delivered[1][Len(hist[1].delivered[1])] = "xC3"
  /\ hist[1].delivered[2][1] = "xA9"
  /\ promise[1].state = "resolved"
  /\ Len(promise[1].value.toolCalls) = 1
  /\ promise[1].value.content = <<"U+00E9">>

\* C2: for each decoder, when the transport delivers one chunk holding a
\* payload of complete lines with exactly one content delta and then ends,
\* the buffer is empty once the chunk is decoded, exactly one token item is
\* produced, onToken is called exactly once, with the text of the delta, and
\* the content of the result is that text.
C2_SingleChunkOneToken ==
  (frame[1].pc \in {"processing", "settled"} /\ Len(hist[1].delivered) = 1) =>
    LET p == frame[1].provider IN
      \A n \in 1..MaxLines : \A ls \in [1..n -> SplitLines(p)] :
        LET deltas == {k \in 1..n : ls[k] \in {TokenLine(p), AccentLine(p)}}
            text == IF \E k \in deltas : ls[k] = TokenLine(p)
                    THEN <<"H", "i">> ELSE <<"U+00E9">>
            tokens(items) == SelectSeq(items, LAMBDA it : it.type = "token")
            onTokens == SelectSeq(calls[1], LAMBDA c : c.cb = "onToken")
        IN (/\ Cardinality(deltas) = 1
            /\ hist[1].delivered = <<Wire(ls)>>)
           => /\ frame[1].pc = "processing" =>
                   /\ buffer = <<>>
                   /\ GetBuffer = <<>>
                   /\ tokens(frame[1].processed) =
                        <<[type |-> "token", content |-> Str(text)]>>
              /\ frame[1].pc = "settled" =>
                   /\ onTokens = <<[cb |-> "onToken", arg |-> Str(text)]>>
                   /\ promise[1].state = "resolved"
                   /\ promise[1].value.content = text

\* A settled Anthropic stream of one chunk of two lines, a tool call and a
\* token, which made one onToken call.
C2_Witness ==
  /\ frame[1].pc = "settled"
  /\ frame[1].provider = "anthropic"
  /\ hist[1].delivered = <<Wire(<<AnthropicToolUse, AnthropicToken>>)>>
  /\ Len(SelectSeq(calls[1], LAMBDA c : c.cb = "onToken")) = 1
  /\ promise[1].value.content = <<"H", "i">>

\* C3: in every decoder a complete line that is not valid JSON produces no
\* item and raises nothing, and the read loop goes on: the stream resolves,
\* onError is not called, and the calls made are those of the lines before
\* and after the malformed line, in the order of the lines, whether these
\* lines came in the same chunk or in a later one.
C3_MalformedLineDropped ==
  frame[1].pc = "settled" =>
    LET p == frame[1].provider IN
      \A n \in 1..MaxLines : \A ls \in [1..n -> SplitLines(p)] :
        LET toolData ==
              CASE Family(p) = "anthropic" ->
                     [id |-> Str(<<"t", "1">>), name |-> Str(<<"f">>),
                      input |-> Obj(<<>>)]
                [] Family(p) = "gemini" ->
                     [name |-> Str(<<"f">>), arguments |-> Obj(<<>>)]
                [] OTHER ->
                     [id |-> Str(<<"c", "1">>), name |-> Str(<<"f">>),
                      arguments |-> Str(<<>>)]
            lineCalls(line) ==
              CASE line = TokenLine(p) ->
                     <<[cb |-> "onToken", arg |-> Str(<<"H", "i">>)]>>
                [] line = AccentLine(p) ->
                     <<[cb |-> "onToken", arg |-> Str(<<"U+00E9">>)]>>
                [] line = ToolLine(p) ->
                     <<[cb |-> "onToolCall", arg |-> toolData]>>
                [] OTHER -> <<>>
            expected == Flatten([k \in 1..n |-> lineCalls(ls[k])])
        IN (/\ \E k \in 1..n : ls[k] = MalformedLine(p)
            /\ Flatten(hist[1].delivered) = Wire(ls))
           => /\ promise[1].state = "resolved"
              /\ \A k \in 1..Len(calls[1]) : calls[1][k].cb # "onError"
              /\ SubSeq(calls[1], 1, Len(calls[1]) - 1) = expected
              /\ calls[1][Len(calls[1])].cb = "onComplete"

\* A settled Gemini stream whose first chunk ended with a malformed line and
\* whose second chunk was a token line: the token was delivered.
C3_Witness ==
  /\ frame[1].pc = "settled"
  /\ frame[1].provider = "gemini"
  /\ hist[1].delivered = <<Wire(<<GeminiMalformed>>), Wire(<<GeminiToken>>)>>
  /\ calls[1][1] = [cb |-> "onToken", arg |-> Str(<<"H", "i">>)]
  /\ promise[1].state = "resolved"

(***************************************************************************)
(* Properties of the streams of one instance (Spec).                       *)
(***************************************************************************)

C5_ToolDispatchDoesNotBlock ==
  \A i \in Invocations :
    (/\ running = i
     /\ frame[i].pc \in {"loop", "dispatch"}
     /\ HasPendingTool(i))
    => ENABLED (WhileIsStreaming(i) \/ DispatchItem(i, "return"))

\* A stream that resolved at end-of-data, and delivered a token after its
\* tool call, while the tool execution was still pending.
C5_Witness ==
  /\ promise[1].state = "resolved"
  /\ hist[1].benign /\ ~hist[1].stopped
  /\ frame[1].reader = <<>>
  /\ HasPendingTool(1)
  /\ \E k, m \in 1..Len(calls[1]) :
       /\ k < m
       /\ calls[1][k].cb = "onToolCall"
       /\ calls[1][m].cb = "onToken"

\* C6: a stream that was stopped by stopStream(), whose callbacks returned
\* and whose transport did not fail, resolves, without a call of onError; it
\* read no chunk after the read that was pending when stopStream() was called
\* (none when no read was pending), and its result holds exactly what the
\* chunks read up to that point accumulate.
C6_StopStreamResolves ==
  \A i \in Invocations :
    (/\ frame[i].pc = "settled"
     /\ hist[i].stopped
     /\ hist[i].benign)
    => LET upTo == RunAlone(frame[i].provider, hist[i].delivered).result
       IN /\ promise[i].state = "resolved"
          /\ \A k \in 1..Len(calls[i]) : calls[i][k].cb # "onError"
          /\ \/ Len(hist[i].delivered) = hist[i].stopLimit
             \/ /\ Len(hist[i].delivered) = hist[i].stopLimit - 1
                /\ frame[i].reader = <<>>
          /\ promise[i].value.content = upTo.content
          /\ promise[i].value.toolCalls = upTo.toolCalls
          /\ promise[i].value.thinkingContent = upTo.thinkingContent

\* A stream stopped while a chunk was still to come: it resolved with the
\* tool call of the first chunk and without the tokens of the second.
C6_Witness ==
  /\ frame[1].pc = "settled"
  /\ hist[1].stopped /\ hist[1].benign
  /\ frame[1].reader # <<>>
  /\ promise[1].state = "resolved"
  /\ Len(promise[1].value.toolCalls) = 1
  /\ promise[1].value.content = <<>>

\* C7: an exception raised by the transport read or thrown by a callback
\* (onToken, onToolCall, onComplete) is caught: the stream settles rejected;
\* the error it rejects with is the thrown error itself when that is a
\* StreamError, and a StreamError of code PARSE_FAILED otherwise; onError has
\* been called exactly once, as the last call, with the error the promise is
\* rejected with.
C7_ExceptionsCaughtAndReported ==
  \A i \in Invocations :
    (/\ frame[i].pc = "settled"
     /\ hist[i].thrown # NoError)
    => LET onErrors == SelectSeq(calls[i], LAMBDA c : c.cb = "onError")
       IN /\ promise[i].state = "rejected"
          /\ IF hist[i].thrown.cls = "StreamError"
             THEN promise[i].value = hist[i].thrown
             ELSE /\ promise[i].value.cls = "StreamError"
                  /\ promise[i].value.code = "PARSE_FAILED"
                  /\ promise[i].value.details = hist[i].thrown.message
          /\ Len(onErrors) = 1
          /\ onErrors[1].arg = promise[i].value
          /\ calls[i][Len(calls[i])].cb = "onError"

\* A stream whose onComplete threw an Error that is no StreamError: it made
\* a token call, the onComplete call and the onError call, and is rejected
\* with the wrapping StreamError.
C7_Witness ==
  /\ frame[1].pc = "settled"
  /\ hist[1].thrown = CallbackError("Error")
  /\ promise[1].state = "rejected"
  /\ promise[1].value.code = "PARSE_FAILED"
  /\ \E k \in 1..Len(calls[1]) : calls[1][k].cb = "onToken"
  /\ \E k \in 1..Len(calls[1]) : calls[1][k].cb = "onComplete"

\* C8: once a stream has settled, resolved, stopped or rejected, and no
\* stream is in flight on the instance, isCurrentlyStreaming() is false and
\* getBuffer() is the empty string.
C8_SettledInstanceIsClear ==
  ((\E i \in Invocations : frame[i].pc = "settled") /\ NoneInFlight)
  => (~IsCurrentlyStreaming /\ GetBuffer = <<>>)

\* A stream rejected after it had read a chunk that ended inside a line,
\* with no stream in flight.
C8_Witness ==
  /\ frame[1].pc = "settled"
  /\ NoneInFlight
  /\ promise[1].state = "rejected"
  /\ hist[1].delivered # <<>>
  /\ LET text == Flatten(hist[1].delivered) IN text[Len(text)] # "\n"
  /\ ~IsCurrentlyStreaming
  /\ GetBuffer = <<>>

\* C9: no state leaks across the streams of one instance.  A stream started
\* after the stream before it settled, however that one ended, settles with
\* the result, and has made the callback calls, of handleStream on a fresh
\* instance with the same transport.
C9_NoLeakAcrossInvocations ==
  \A i \in Invocations \ {1} :
    frame[i].pc = "settled" =>
      LET fresh == RunAlone(frame[i].provider, hist[i].delivered \o frame[i].reader)
      IN /\ promise[i].state = "resolved"
         /\ promise[i].value = fresh.result
         /\ calls[i] = fresh.calls

\* A second stream that delivered tokens, settled after a first stream that
\* was rejected having read a chunk that ended inside a line.
C9_Witness ==
  /\ frame[1].pc = "settled"
  /\ promise[1].state = "rejected"
  /\ hist[1].delivered # <<>>
  /\ LET text == Flatten(hist[1].delivered) IN text[Len(text)] # "\n"
  /\ frame[2].pc = "settled"
  /\ Len(hist[2].delivered) = 2
  /\ promise[2].value.content # <<>>

(***************************************************************************)
(* Properties of overlapping streams (SpecOverlap).                        *)
(***************************************************************************)

\* C10: two streams in flight on one instance corrupt each other through
\* the buffer they share.  A stream whose result differs from the result of
\* handleStream alone on its transport is a stream that another stream
\* overlapped, and such results are reachable when the second stream starts
\* while the first is suspended at a read of its transport.
C10_OnlyOverlapCorrupts ==
  \A i \in OverlapInvocations :
    (/\ frame[i].pc = "settled"
     /\ promise[i].value #
          RunAlone(frame[i].provider, hist[i].delivered \o frame[i].reader).result)
    => hist[i].overlapped

\* The second stream was started while the first was suspended at a read of
\* its transport, and both settled with a result that differs from the
\* result of handleStream alone on the same transport.
C10_Witness ==
  /\ hist[1].atRead
  /\ \A i \in OverlapInvocations :
       /\ frame[i].pc = "settled"
       /\ promise[i].state = "resolved"
       /\ promise[i].value #
            RunAlone(frame[i].provider, hist[i].delivered \o frame[i].reader).result

(***************************************************************************)
(* Finish events, blank lines and the end marker.                          *)
(***************************************************************************)

\* C11: every result handleStream builds has finishReason 'stop': the value
\* every resolved promise holds and the argument of every onComplete call,
\* whatever reason a decoded finish carried, when no finish was decoded and
\* when the stream was stopped early.
C11_FinishReasonAlwaysStop ==
  \A i \in Invocations :
    /\ promise[i].state = "resolved" => promise[i].value.finishReason = "stop"
    /\ \A k \in 1..Len(calls[i]) :
         calls[i][k].cb = "onComplete" => calls[i][k].arg.finishReason = "stop"

\* An OpenAI stream that resolved after it was stopped, whose first chunk
\* began with a finish of reason 'length'.
C11_Witness ==
  /\ frame[1].provider = "openai"
  /\ promise[1].state = "resolved"
  /\ hist[1].stopped
  /\ hist[1].delivered # <<>>
  /\ SubSeq(hist[1].delivered[1], 1, Len(OpenAIFinish) + 1) = Wire(<<OpenAIFinish>>)
  /\ promise[1].value.finishReason = "stop"

\* C12: a finish, and the end marker `data: [DONE]`, do not end the read
\* loop.  The loop is left only at the end of the transport's data or after
\* stopStream() (an error leaves it through the catch block); and a stream
\* whose transport delivers a finish, then a tool call in the same chunk and
\* a token in the next chunk, makes the onToolCall call and the onToken call
\* and accumulates both.
C12_FinishDoesNotEndLoop ==
  \A i \in Invocations :
    LET p == frame[i].provider
        payload == Wire(FinishLines(p) \o <<ToolLine(p), TokenLine(p)>>)
                     \o AccentLine(p)
        toolData ==
          CASE Family(p) = "anthropic" ->
                 [id |-> Str(<<"t", "1">>), name |-> Str(<<"f">>), input |-> Obj(<<>>)]
            [] Family(p) = "gemini" ->
                 [name |-> Str(<<"f">>), arguments |-> Obj(<<>>)]
            [] OTHER ->
                 [id |-> Str(<<"c", "1">>), name |-> Str(<<"f">>),
                  arguments |-> Str(<<>>)]
        result == [content |-> <<"H", "i">>, toolCalls |-> <<toolData>>,
                   thinkingContent |-> <<>>, finishReason |-> "stop"]
    IN /\ (frame[i].pc = "complete" \/ promise[i].state = "resolved")
            => (frame[i].reader = <<>> \/ hist[i].stopped)
       /\ (/\ frame[i].pc = "settled"
           /\ hist[i].benign /\ ~hist[i].stopped
           /\ Flatten(hist[i].delivered) = payload)
          => /\ promise[i].state = "resolved"
             /\ promise[i].value = result
             /\ calls[i] = <<[cb |-> "onToolCall", arg |-> toolData],
                             [cb |-> "onToken", arg |-> Str(<<"H", "i">>)],
                             [cb |-> "onComplete", arg |-> result]>>

\* An OpenAI stream whose first chunk held a finish, the end marker and a
\* tool call, and whose second chunk completed a token: it read both chunks
\* and delivered the tool call and the token.
C12_Witness ==
  /\ frame[1].pc = "settled"
  /\ frame[1].provider = "openai"
  /\ Len(hist[1].delivered) = 2
  /\ SubSeq(hist[1].delivered[1], 1, Len(OpenAIFinish) + Len(OpenAIDone) + 2)
       = Wire(<<OpenAIFinish, OpenAIDone>>)
  /\ promise[1].state = "resolved"
  /\ Len(promise[1].value.toolCalls) = 1
  /\ promise[1].value.content = <<"H", "i">>

\* C13: decoding `data: {"choices":[{"delta":{"content":"Hi"}}]}`, a blank
\* line, `data: [DONE]` and a blank line, every line ended by a newline,
\* yields exactly one token item with content "Hi" and no other item, and
\* leaves an empty buffer.  In every decoder blank lines and the end marker
\* produce no item: however the fixture of a provider is delivered, the
\* buffer is empty once its last byte is decoded, and the stream makes one
\* onToken call, with "Hi", and resolves with content "Hi" and no tool call.
C13_DoneFixtureOneToken ==
  LET p == frame[1].provider
      token == [type |-> "token", content |-> Str(<<"H", "i">>)]
      result == [content |-> <<"H", "i">>, toolCalls |-> <<>>,
                 thinkingContent |-> <<>>, finishReason |-> "stop"]
  IN (hist[1].delivered # <<>> /\ Flatten(hist[1].delivered) = DoneFixture(p))
     => /\ frame[1].pc = "processing" =>
             /\ GetBuffer = <<>>
             /\ Len(hist[1].delivered) = 1 => frame[1].processed = <<token>>
             /\ ProcessBuffer(DoneFixture(p), p) =
                  [processed |-> <<token>>, buffer |-> <<>>]
        /\ frame[1].pc = "settled" =>
             /\ promise[1].state = "resolved"
             /\ promise[1].value = result
             /\ calls[1] = <<[cb |-> "onToken", arg |-> Str(<<"H", "i">>)],
                             [cb |-> "onComplete", arg |-> result]>>

\* An OpenAI stream that has just decoded the fixture, delivered as one
\* chunk: one token item, an empty buffer.
C13_Witness ==
  /\ frame[1].provider = "openai"
  /\ frame[1].pc = "processing"
  /\ hist[1].delivered = <<DoneFixture("openai")>>
  /\ Len(frame[1].processed) = 1
  /\ frame[1].processed[1].type = "token"
  /\ GetBuffer = <<>>

(***************************************************************************)
(* Tool calls.                                                             *)
(***************************************************************************)

\* C14: every tool_call item a decoder emits carries the tool's name and,
\* in the field `arguments`, its arguments, so that the execution onToolCall
\* starts for a registered tool receives the arguments decoded from the
\* wire for that call.
C14_ToolCallCarriesArguments ==
  /\ \A i \in Invocations : \A k \in 1..Len(calls[i]) :
       calls[i][k].cb = "onToolCall" =>
         {"name", "arguments"} \subseteq DOMAIN calls[i][k].arg
  /\ \A k \in 1..Len(toolRuns) :
       toolRuns[k].arguments =
         (IF Family(frame[toolRuns[k].inv].provider) = "openai"
          THEN Str(<<>>) ELSE Obj(<<>>))

(***************************************************************************)
(* Agentify.chat: the task it creates, what it reports to the event        *)
(* manager and to the caller's options callbacks, and the promise it       *)
(* returns.  A streaming chat hands the closures of                        *)
(* handleStreamingResponse to handleStream; a non-streaming chat decodes   *)
(* the whole response and walks its tool calls itself.  A chat is          *)
(* suspended at `await this.adapter.makeRequest` (pc = "request"), at      *)
(* `await this.streamHandler.handleStream` (pc = "stream"), at             *)
(* `await response.json()` (pc = "json") and at                            *)
(* `await this.toolManager.executeTool` (pc = "tool").                     *)
(***************************************************************************)

\* What a caller's options callback does when it is called.
OptionBehaviours == {"return", "throwError"}

\* The error a failing request or a failing body read rejects with.
RequestError ==
  [cls |-> "Error", code |-> "", message |-> "request failed", details |-> ""]

\* What the event manager is told about a tool call: its name and
\* toolCall.arguments.
ToolCallLogged(toolCall) ==
  [name |-> toolCall.name, arguments |-> ToolCallArguments(toolCall)]

\* A tool call from its announcement to the registry test:
\* logToolCallInitiated, then options.onToolCall(toolCall).
ToolCallReports(toolCall) ==
  <<[ev |-> "logToolCallInitiated", arg |-> ToolCallLogged(toolCall)],
    [ev |-> "options.onToolCall", arg |-> toolCall]>>

\* The end of a tool execution: logToolCallCompleted when executeTool
\* resolved, logToolCallFailed when it rejected.
ToolRunReport(run) ==
  [ev |-> IF run.state = "resolved" THEN "logToolCallCompleted"
          ELSE "logToolCallFailed",
   arg |-> [name |-> run.name, arguments |-> run.arguments]]

\* The promise the dispatch closure onToolCall returned for the execution k:
\* `return result` resolves it, `throw error` rejects it.
ClosurePromise(k) == toolRuns[k].state

\* this.thinkingTracker.startThinking(action), setAction(action) and
\* stopThinking(): the report of a transition of the thinking tracker.
ThinkingTracker(transition, action) == [ev |-> transition, arg |-> action]

\* A catch block of chat that leaves the thinking tracker as it is.
ChatCatchKeepsThinking(c, error) ==
  [c EXCEPT !.pc = "settled",
            !.log = @ \o <<[ev |-> "logError", arg |-> [error |-> error, context |-> "chat"]],
                           [ev |-> "options.onError", arg |-> error]>>,
            !.task = Append(@, "failed"),
            !.promise = [state |-> "rejected", value |-> error]]

\* The catch block of chat: logError(error, 'chat'), the task is failed,
\* stopThinking(), options.onError(error), and the error is thrown again.
ChatCatch(c, error) ==
  [c EXCEPT !.pc = "settled",
            !.log = @ \o <<[ev |-> "logError", arg |-> [error |-> error, context |-> "chat"]],
                           ThinkingTracker("stopThinking", ""),
                           [ev |-> "options.onError", arg |-> error]>>,
            !.task = Append(@, "failed"),
            !.promise = [state |-> "rejected", value |-> error]]

\* this.messages.push({role: 'user', content: message}): the report of the
\* user message appended to the history.
UserMessage ==
  [ev |-> "messages.push", arg |-> [role |-> "user", content |-> <<"h", "i">>]]

\* chat(message, options) up to the await of the request: the task is added
\* as pending, the tracker starts thinking, the user message is appended to
\* the history, the request is formatted, the task is set to running and the
\* request is sent.
Chat(i, stream) ==
  /\ running = 0
  /\ chat[i].pc = "idle"
  /\ \A j \in Invocations : j < i => chat[j].pc = "settled"
  /\ chat' = [chat EXCEPT ![i] =
                [IdleChat EXCEPT !.pc = "request", !.stream = stream,
                                 !.task = <<"pending", "running">>,
                                 !.log =
                                   <<ThinkingTracker("startThinking", "Preparing request"),
                                     UserMessage,
                                     ThinkingTracker("setAction", "Formatting request"),
                                     ThinkingTracker("setAction", "Sending request to API")>>,
                                 !.promise = PendingPromise]]
  /\ UNCHANGED <<buffer, isStreaming, running, frame, promise, calls, toolRuns, hist>>

\* adapter.makeRequest rejects.
MakeRequestRejects(i) ==
  /\ running = 0
  /\ chat[i].pc = "request"
  /\ chat' = [chat EXCEPT ![i] = ChatCatch(chat[i], RequestError)]
  /\ UNCHANGED <<buffer, isStreaming, running, frame, promise, calls, toolRuns, hist>>

\* The request resolves and config.stream is set: handleStreamingResponse
\* calls handleStream with its closures.
HandleStreamingResponse(i, provider, chunks) ==
  /\ chat[i].pc = "request"
  /\ chat[i].stream
  /\ HandleStream(i, provider, chunks)
  /\ chat' = [chat EXCEPT
                ![i].pc = "stream",
                ![i].log = Append(@, ThinkingTracker("setAction", "Processing stream"))]

\* One iteration of the for loop of handleStream with the closures of
\* handleStreamingResponse.  onToken hands the token to options.onToken,
\* which behaves as beh; onToolCall is async, sets the action of the
\* tracker, reports the call and starts the execution of a registered tool.
StreamDispatch(i, beh) ==
  /\ chat[i].pc = "stream"
  /\ running = i
  /\ frame[i].pc = "dispatch"
  /\ Head(frame[i].processed).type = "tool_call" => beh = "return"
  /\ DispatchItem(i, beh)
  /\ chat' = [chat EXCEPT ![i].log =
                LET item == Head(frame[i].processed)
                IN CASE item.type = "tool_call" ->
                          Append(@, ThinkingTracker("setAction",
                                      <<"Executing tool: ", item.data.name>>))
                            \o ToolCallReports(item.data)
                     [] item.type = "token" ->
                          Append(@, [ev |-> "options.onToken", arg |-> item.content])
                     [] OTHER -> @]

\* The await of executeTool in the closure onToolCall resumes: the end of
\* the execution is reported, and the closure returns the result or throws
\* the error again.
StreamToolSettles(k, state) ==
  /\ k \in 1..Len(toolRuns)
  /\ chat[toolRuns[k].inv].stream
  /\ ToolSettles(k, state)
  /\ chat' = [chat EXCEPT ![toolRuns[k].inv].log =
                Append(@, ToolRunReport(toolRuns'[k]))]

\* if (result.content) this.messages.push({role: 'assistant', content}): the
\* report of the message appended to the history, <<>> for an empty answer.
AssistantMessage(content) ==
  IF content # <<>>
  THEN <<[ev |-> "messages.push", arg |-> [role |-> "assistant", content |-> content]]>>
  ELSE <<>>

\* A closure onComplete that first awaits the tool executions of its stream:
\* it does not run while one of them is in flight.
StreamCompleteAwaitsTools(i, beh) ==
  /\ chat[i].pc = "stream"
  /\ \A k \in 1..Len(toolRuns) :
       toolRuns[k].inv = i => toolRuns[k].state # "pending"
  /\ OnComplete(i, beh)
  /\ chat' = [chat EXCEPT
                ![i].task = Append(@, "completed"),
                ![i].log = @ \o AssistantMessage(calls'[i][Len(calls'[i])].arg.content)
                             \o <<ThinkingTracker("stopThinking", ""),
                                  [ev |-> "options.onComplete",
                                    arg |-> calls'[i][Len(calls'[i])].arg]>>]

\* The closure onComplete: the assistant message is appended to the history,
\* the task is completed, stopThinking(), then options.onComplete(result),
\* which behaves as beh.
StreamComplete(i, beh) ==
  /\ chat[i].pc = "stream"
  /\ OnComplete(i, beh)
  /\ chat' = [chat EXCEPT
                ![i].task = Append(@, "completed"),
                ![i].log = @ \o AssistantMessage(calls'[i][Len(calls'[i])].arg.content)
                             \o <<ThinkingTracker("stopThinking", ""),
                                  [ev |-> "options.onComplete",
                                    arg |-> calls'[i][Len(calls'[i])].arg]>>]

\* The catch block of handleStream with the closure onError:
\* logError(error, 'stream'), then options.onError(error).
StreamCatch(i) ==
  /\ chat[i].pc = "stream"
  /\ Catch(i)
  /\ chat' = [chat EXCEPT ![i].log =
                @ \o <<[ev |-> "logError",
                        arg |-> [error |-> frame'[i].error, context |-> "stream"]],
                       [ev |-> "options.onError", arg |-> frame'[i].error]>>]

\* The await of handleStream's promise resumes in chat: its value is
\* returned, its error goes to the catch block of chat.
HandleStreamSettles(i) ==
  /\ running = 0
  /\ chat[i].pc = "stream"
  /\ frame[i].pc = "settled"
  /\ chat' = [chat EXCEPT ![i] =
                IF promise[i].state = "resolved"
                THEN [chat[i] EXCEPT !.pc = "settled", !.result = promise[i].value,
                                     !.promise = promise[i]]
                ELSE ChatCatch(chat[i], promise[i].value)]
  /\ UNCHANGED <<buffer, isStreaming, running, frame, promise, calls, toolRuns, hist>>

\* The request resolves and config.stream is not set:
\* handleNonStreamingResponse awaits the body.
HandleNonStreamingResponse(i) ==
  /\ running = 0
  /\ chat[i].pc = "request"
  /\ ~chat[i].stream
  /\ chat' = [chat EXCEPT
                ![i].pc = "json",
                ![i].log = Append(@, ThinkingTracker("setAction", "Parsing response"))]
  /\ UNCHANGED <<buffer, isStreaming, running, frame, promise, calls, toolRuns, hist>>

\* response.json() rejects.
ResponseJsonRejects(i) ==
  /\ running = 0
  /\ chat[i].pc = "json"
  /\ chat' = [chat EXCEPT ![i] = ChatCatch(chat[i], RequestError)]
  /\ UNCHANGED <<buffer, isStreaming, running, frame, promise, calls, toolRuns, hist>>

\* `for (const toolCall of result.toolCalls)` from the call at the head of
\* c.toolCalls to the next await of executeTool, and after the last call to
\* the end of handleNonStreamingResponse: the task is completed,
\* stopThinking(), options.onComplete(result) behaves as beh, the result is
\* returned.
RECURSIVE ToolCallLoop(_, _, _)
ToolCallLoop(i, c, beh) ==
  IF c.toolCalls = <<>>
  THEN LET done == [c EXCEPT !.task = Append(@, "completed"),
                             !.log = @ \o <<ThinkingTracker("stopThinking", ""),
                                             [ev |-> "options.onComplete",
                                              arg |-> c.result]>>]
       IN [chat |-> IF Throws(beh) THEN ChatCatch(done, ThrownBy(beh))
                    ELSE [done EXCEPT !.pc = "settled",
                                      !.promise = [state |-> "resolved",
                                                   value |-> c.result]],
           launch |-> <<>>]
  ELSE LET toolCall == Head(c.toolCalls)
           reported == [c EXCEPT !.log = @ \o ToolCallReports(toolCall),
                                 !.toolCalls = Tail(@)]
       IN IF ToolLaunch(i, toolCall) # <<>>
          THEN [chat |-> [reported EXCEPT !.pc = "tool"],
                launch |-> ToolLaunch(i, toolCall)]
          ELSE ToolCallLoop(i, reported, beh)

\* response.json() resolves and adapter.parseResponse gives result: the
\* assistant message is appended to the history, the action of the tracker
\* is set when the response has tool calls, and the tool calls are walked up
\* to the first await.
ResponseJson(i, result, beh) ==
  /\ running = 0
  /\ chat[i].pc = "json"
  /\ LET next == ToolCallLoop(i, [chat[i] EXCEPT
                                    !.result = result,
                                    !.toolCalls = result.toolCalls,
                                    !.log = @ \o AssistantMessage(result.content)
                                              \o IF result.toolCalls # <<>>
                                                 THEN <<ThinkingTracker("setAction",
                                                          "Processing tool calls")>>
                                                 ELSE <<>>],
                              beh)
     IN /\ chat' = [chat EXCEPT ![i] = next.chat]
        /\ toolRuns' = toolRuns \o next.launch
  /\ UNCHANGED <<buffer, isStreaming, running, frame, promise, calls, hist>>

\* A loop that throws the error of a failed execution again, as the closure
\* of the streaming path does: the error reaches the catch block of chat.
NonStreamToolSettlesRethrows(i, state, beh) ==
  /\ running = 0
  /\ chat[i].pc = "tool"
  /\ LET k == CHOOSE n \in 1..Len(toolRuns) :
                toolRuns[n].inv = i /\ toolRuns[n].state = "pending"
         settled == [toolRuns[k] EXCEPT !.state = state]
         reported == [chat[i] EXCEPT !.log = Append(@, ToolRunReport(settled))]
         next == IF state = "rejected"
                 THEN [chat |-> ChatCatch(reported, RequestError), launch |-> <<>>]
                 ELSE ToolCallLoop(i, reported, beh)
     IN /\ chat' = [chat EXCEPT ![i] = next.chat]
        /\ toolRuns' = [toolRuns EXCEPT ![k] = settled] \o next.launch
  /\ UNCHANGED <<buffer, isStreaming, running, frame, promise, calls, hist>>

\* The await of executeTool in handleNonStreamingResponse resumes: the end
\* of the execution is reported, a rejection is swallowed, and the loop goes
\* on.
NonStreamToolSettles(i, state, beh) ==
  /\ running = 0
  /\ chat[i].pc = "tool"
  /\ LET k == CHOOSE n \in 1..Len(toolRuns) :
                toolRuns[n].inv = i /\ toolRuns[n].state = "pending"
         settled == [toolRuns[k] EXCEPT !.state = state]
         next == ToolCallLoop(i, [chat[i] EXCEPT
                                    !.log = Append(@, ToolRunReport(settled))],
                              beh)
     IN /\ chat' = [chat EXCEPT ![i] = next.chat]
        /\ toolRuns' = [toolRuns EXCEPT ![k] = settled] \o next.launch
  /\ UNCHANGED <<buffer, isStreaming, running, frame, promise, calls, hist>>

\* A tool call of a parsed response.
ParsedToolCall(id, name) ==
  [id |-> Str(<<"c", id>>), name |-> Str(<<name>>), arguments |-> Str(<<>>)]

\* What adapter.parseResponse gives: the answer "Hi" with up to two calls of
\* the registered tool f and of the tool g the registry does not have.
ParsedResults ==
  LET f == ParsedToolCall("1", "f")
      g == ParsedToolCall("2", "g")
  IN {[content |-> <<"H", "i">>, toolCalls |-> tcs, finishReason |-> "stop"] :
        tcs \in {<<>>, <<f>>, <<g>>, <<f, g>>, <<g, f>>, <<f, f>>}}

\* The transports of a streaming chat: two tool calls, of f and of g, in a
\* first chunk and a token in a second; a token and a call of f in one
\* chunk; a token and two calls of f in one chunk.
ChatTransports ==
  {CutAt(Wire(<<OpenAIToolCall, OpenAIToolCallUnknown, OpenAIToken>>),
         Len(OpenAIToolCall) + Len(OpenAIToolCallUnknown) + 2),
   <<Wire(<<OpenAIToken, OpenAIToolCall>>)>>,
   <<Wire(<<OpenAIToken, OpenAIToolCall, OpenAIToolCall>>)>>}

(***************************************************************************)
(* SpecChat: the chats of one Agentify, one at a time, streaming or not,   *)
(* whose request, body read, stream read and tool executions succeed or    *)
(* fail, and whose options.onToken and options.onComplete return or throw. *)
(* The i-th chat, when it streams, makes the i-th handleStream invocation. *)
(***************************************************************************)

NextChat ==
  \/ \E i \in Invocations, stream \in BOOLEAN : Chat(i, stream)
  \/ \E i \in Invocations : MakeRequestRejects(i)
  \/ \E i \in Invocations :
       /\ chat[i].pc = "request"
       /\ \E chunks \in ChatTransports : HandleStreamingResponse(i, "openai", chunks)
  \/ \E i \in Invocations : WhileIsStreaming(i) /\ UNCHANGED chat
  \/ \E i \in Invocations : ReaderReadValue(i) /\ UNCHANGED chat
  \/ \E i \in Invocations : ReaderReadDone(i) /\ UNCHANGED chat
  \/ \E i \in Invocations : ReaderReadRejects(i) /\ UNCHANGED chat
  \/ \E i \in Invocations : ProcessBufferResumes(i) /\ UNCHANGED chat
  \/ \E i \in Invocations, beh \in OptionBehaviours : StreamDispatch(i, beh)
  \/ \E k \in 1..Len(toolRuns), state \in {"resolved", "rejected"} :
       StreamToolSettles(k, state)
  \/ \E i \in Invocations, beh \in OptionBehaviours : StreamComplete(i, beh)
  \/ \E i \in Invocations : StreamCatch(i)
  \/ \E i \in Invocations : Finally(i) /\ UNCHANGED chat
  \/ \E i \in Invocations : HandleStreamSettles(i)
  \/ \E i \in Invocations : HandleNonStreamingResponse(i)
  \/ \E i \in Invocations : ResponseJsonRejects(i)
  \/ \E i \in Invocations :
       /\ chat[i].pc = "json"
       /\ \E result \in ParsedResults, beh \in OptionBehaviours :
            ResponseJson(i, result, beh)
  \/ \E i \in Invocations, state \in {"resolved", "rejected"},
        beh \in OptionBehaviours :
       NonStreamToolSettles(i, state, beh)

SpecChat == Init /\ [][NextChat]_vars

(***************************************************************************)
(* Properties of the chats (SpecChat).                                     *)
(***************************************************************************)

\* The arguments of the entries ev of a log, in order.
Reported(log, ev) ==
  LET es == SelectSeq(log, LAMBDA e : e.ev = ev)
  IN [k \in 1..Len(es) |-> es[k].arg]

\* The tool calls a chat has met so far: those handleStream dispatched to
\* the closure onToolCall, or those the loop of handleNonStreamingResponse
\* has taken from the parsed result.
ToolCallsMet(i) ==
  IF chat[i].stream
  THEN Reported([k \in 1..Len(calls[i]) |->
                   [ev |-> calls[i][k].cb, arg |-> calls[i][k].arg]],
                "onToolCall")
  ELSE IF chat[i].pc \in {"idle", "request", "json"} \/ chat[i].result = Undefined
       THEN <<>>
       ELSE SubSeq(chat[i].result.toolCalls, 1,
                   Len(chat[i].result.toolCalls) - Len(chat[i].toolCalls))

\* C15: in the streaming and in the non-streaming path, every tool call the
\* chat meets is handed to options.onToolCall, also when its name is not
\* registered; no execution is ever started for a name that is not
\* registered, and no logToolCallCompleted or logToolCallFailed is reported
\* for such a name.
C15_UnregisteredToolSurfacedNotRun ==
  \A i \in Invocations :
    /\ Reported(chat[i].log, "options.onToolCall") = ToolCallsMet(i)
    /\ \A k \in 1..Len(toolRuns) : HasTool(toolRuns[k].name)
    /\ \A k \in 1..Len(chat[i].log) :
         chat[i].log[k].ev \in {"logToolCallCompleted", "logToolCallFailed"}
           => HasTool(chat[i].log[k].arg.name)

\* A streaming chat and a non-streaming chat after it, both settled, which
\* each met a call of the tool g the registry does not have and handed it to
\* options.onToolCall.
C15_Witness ==
  /\ chat[1].pc = "settled" /\ chat[1].stream
  /\ chat[2].pc = "settled" /\ ~chat[2].stream
  /\ \A i \in {1, 2} :
       /\ chat[i].promise.state = "resolved"
       /\ \E k \in 1..Len(chat[i].log) :
            /\ chat[i].log[k].ev = "options.onToolCall"
            /\ ~HasTool(chat[i].log[k].arg.name)

\* The tool executions of chat i that have ended as state.
ToolRunsEnded(i, state) ==
  {k \in 1..Len(toolRuns) : toolRuns[k].inv = i /\ toolRuns[k].state = state}

\* C16: in a streaming chat a failed tool execution is reported by
\* logToolCallFailed and rejects the promise of the dispatch closure, and
\* nothing else: when no callback throws and the transport does not fail,
\* the stream never calls onError and nothing is reported as an error, it
\* dispatches every token of every chunk as a stream without tools failing
\* does, handleStream resolves, the task ends completed and chat resolves.
C16_ToolFailureInvisibleToLoop ==
  \A i \in Invocations :
    (chat[i].stream /\ hist[i].benign /\ ToolRunsEnded(i, "rejected") # {}) =>
      /\ Len(Reported(chat[i].log, "logToolCallFailed"))
           = Cardinality(ToolRunsEnded(i, "rejected"))
      /\ \A k \in ToolRunsEnded(i, "rejected") : ClosurePromise(k) = "rejected"
      /\ \A k \in 1..Len(calls[i]) : calls[i][k].cb # "onError"
      /\ \A k \in 1..Len(chat[i].log) :
           chat[i].log[k].ev \notin {"logError", "options.onError"}
      /\ frame[i].pc = "settled" =>
           /\ promise[i].state = "resolved"
           /\ calls[i] = RunAlone(frame[i].provider, hist[i].delivered).calls
      /\ chat[i].pc = "settled" =>
           /\ chat[i].task = <<"pending", "running", "completed">>
           /\ chat[i].promise = promise[i]

\* A settled streaming chat whose tool execution failed before a token was
\* dispatched: the failure is in the log, the token after it, the task is
\* completed.
C16_Witness ==
  /\ chat[1].stream /\ chat[1].pc = "settled"
  /\ chat[1].promise.state = "resolved"
  /\ chat[1].task = <<"pending", "running", "completed">>
  /\ \E k \in 1..Len(chat[1].log) :
       /\ chat[1].log[k].ev = "logToolCallFailed"
       /\ \E n \in (k + 1)..Len(chat[1].log) : chat[1].log[n].ev = "options.onToken"

\* C17: in a non-streaming chat a tool execution that throws is reported by
\* logToolCallFailed and swallowed.  Once such a chat has settled, every
\* tool call of the parsed result has been announced and handed to
\* options.onToolCall, in the order of the result, every registered one has
\* been executed, the task has been set to completed, options.onComplete has
\* been called once, with the parsed result, and chat has resolved with the
\* parsed result, unless options.onComplete itself threw.
C17_NonStreamToolFailureSwallowed ==
  \A i \in Invocations :
    (~chat[i].stream /\ chat[i].pc = "settled"
       /\ ToolRunsEnded(i, "rejected") # {}) =>
      LET c == chat[i]
          tcs == c.result.toolCalls
          runs == SelectSeq(toolRuns, LAMBDA r : r.inv = i)
          registered == SelectSeq(tcs, LAMBDA tc : HasTool(tc.name))
      IN /\ Len(Reported(c.log, "logToolCallFailed"))
              = Cardinality(ToolRunsEnded(i, "rejected"))
         /\ Reported(c.log, "options.onToolCall") = tcs
         /\ Reported(c.log, "logToolCallInitiated")
              = [k \in 1..Len(tcs) |-> ToolCallLogged(tcs[k])]
         /\ [k \in 1..Len(runs) |-> runs[k].name]
              = [k \in 1..Len(registered) |-> registered[k].name]
         /\ \A k \in 1..Len(runs) : runs[k].state # "pending"
         /\ SubSeq(c.task, 1, 3) = <<"pending", "running", "completed">>
         /\ Reported(c.log, "options.onComplete") = <<c.result>>
         /\ \/ c.promise = [state |-> "resolved", value |-> c.result]
            \/ c.promise = [state |-> "rejected", value |-> CallbackError("Error")]

\* A settled non-streaming chat whose result had two calls of f: the first
\* execution failed, the second was still made and succeeded, and chat
\* resolved with the parsed result.
C17_Witness ==
  /\ ~chat[1].stream /\ chat[1].pc = "settled"
  /\ Len(toolRuns) = 2
  /\ toolRuns[1].inv = 1 /\ toolRuns[1].state = "rejected"
  /\ toolRuns[2].inv = 1 /\ toolRuns[2].state = "resolved"
  /\ Len(chat[1].result.toolCalls) = 2
  /\ chat[1].task = <<"pending", "running", "completed">>
  /\ chat[1].promise = [state |-> "resolved", value |-> chat[1].result]

\* C18: the task of every chat goes through pending, running and then one
\* terminal status, completed or failed, and nothing else: it is never
\* completed or failed before it was running, and it is set to a terminal
\* status exactly once.
C18_TaskTransitions ==
  \A i \in Invocations :
    \/ chat[i].task \in {<<>>, <<"pending">>, <<"pending", "running">>}
    \/ \E status \in {"completed", "failed"} :
         chat[i].task = <<"pending", "running", status>>

(***************************************************************************)
(* The suspension points of the read loop and cancellation (Spec).         *)
(***************************************************************************)

\* C19 as stated: the read loop suspends only at the transport read.  From
\* the moment a chunk is appended to the buffer to the dispatch of the last
\* event decoded from it, every step is a step of that invocation: no tool
\* execution settles, no other task calls stopStream, no other handleStream
\* starts.
C19_SuspendsOnlyAtRead ==
  [][\A i \in Invocations :
       frame[i].pc \in {"processing", "dispatch"} => frame'[i] # frame[i]]_vars

\* C19, amended: the read loop suspends at the transport read and at the
\* await of processBuffer's promise, after the chunk was appended and
\* decoded and before its first event is dispatched, and nowhere else.  From
\* the dispatch of the first event of a chunk to the dispatch of its last
\* event every step is a step of that invocation.
C19_SuspendsAtReadAndProcessBuffer ==
  [][/\ running = 0 =>
          \A i \in Invocations :
            InFlight(i) => frame[i].pc \in {"reading", "processing"}
     /\ \A i \in Invocations :
          frame[i].pc = "dispatch" => (running = i /\ frame'[i] # frame[i])]_vars

\* A stream in the middle of the dispatch of a chunk while the execution of
\* a tool it started is still pending: the continuation of the tool has to
\* wait.
C19_Witness ==
  /\ frame[1].pc = "dispatch"
  /\ running = 1
  /\ HasPendingTool(1)
  /\ Len(hist[1].delivered) = 2

\* C20: cancellation is not mid-chunk.  The loop test and the exit of the
\* loop are reached only when every event of the chunk read last has been
\* dispatched.  A stopped stream whose callbacks returned and whose
\* transport did not fail has, whenever it stands between two chunks or
\* after the loop, made the onToken and onToolCall calls of every chunk it
\* read, the chunk of the read that was pending at stopStream() and the rest
\* of the chunk a callback stopped included.  After stopStream() it reads at
\* most one further chunk: the one of the read that was pending, and none
\* when stopStream() was called from a callback or while the loop stood at
\* the await of processBuffer.
C20_NoMidChunkCancellation ==
  \A i \in Invocations :
    LET dispatched(cs) ==
          SelectSeq(cs, LAMBDA c : c.cb \in {"onToken", "onToolCall"})
    IN /\ frame[i].pc \in {"loop", "complete"} => frame[i].processed = <<>>
       /\ (/\ hist[i].stopped /\ hist[i].benign
           /\ frame[i].pc \in {"loop", "reading", "complete", "finally", "settled"})
          => dispatched(calls[i])
               = dispatched(RunAlone(frame[i].provider, hist[i].delivered).calls)
       /\ hist[i].stopped =>
            /\ Len(hist[i].delivered) <= hist[i].stopLimit
            /\ hist[i].stopPc \in {"reading", "processing", "dispatch"}
            /\ hist[i].stopPc # "reading" =>
                 Len(hist[i].delivered) = hist[i].stopLimit

\* A stream stopped while its second read was pending: the chunk that read
\* returned is being dispatched although the flag is cleared.
C20_Witness ==
  /\ hist[1].stopped /\ hist[1].benign
  /\ hist[1].stopPc = "reading"
  /\ ~IsCurrentlyStreaming
  /\ Len(hist[1].delivered) = 2
  /\ hist[1].stopLimit = 2
  /\ frame[1].pc = "dispatch"
  /\ frame[1].processed # <<>>

(***************************************************************************)
(* Stalled reads and termination (Spec).                                   *)
(***************************************************************************)

\* C21: a stream that stands at the transport read stays there, with its
\* promise pending and without a call of onComplete or onError, until the
\* read returns: every step that changes its frame, its callback calls or
\* its promise is the read resolving with a chunk, resolving with done or
\* rejecting.  stopStream() is no such step: when the read never returns,
\* handleStream never settles, stopped or not.
C21_StalledReadNeverSettles ==
  [][\A i \in Invocations :
       frame[i].pc = "reading" =>
         /\ promise[i].state = "pending"
         /\ \A k \in 1..Len(calls[i]) :
              calls[i][k].cb \notin {"onComplete", "onError"}
         /\ (<<frame[i], calls[i], promise[i]>>' # <<frame[i], calls[i], promise[i]>>)
              => \/ ReaderReadValue(i)
                 \/ ReaderReadDone(i)
                 \/ ReaderReadRejects(i)]_vars

\* A stream that was stopped while its read was pending and still stands at
\* that read, its promise pending.
C21_Witness ==
  /\ frame[1].pc = "reading"
  /\ hist[1].stopped /\ hist[1].stopPc = "reading"
  /\ ~IsCurrentlyStreaming
  /\ promise[1].state = "pending"
  /\ frame[1].reader # <<>>

\* A step of the invocation i of handleStream that the event loop takes: a
\* step of its loop, the end of its transport, its callbacks, its catch and
\* its finally block.
HandleStreamStep(i) ==
  /\ UNCHANGED chat
  /\ \/ WhileIsStreaming(i)
     \/ ReaderReadDone(i)
     \/ ProcessBufferResumes(i)
     \/ \E beh \in Behaviours : DispatchItem(i, beh)
     \/ \E beh \in Behaviours : OnComplete(i, beh)
     \/ Catch(i)
     \/ Finally(i)

\* The steps of ReaderReadValue(i), told by what they leave in the history:
\* the pending read returns the next chunk of the transport.
ReaderReadReturns(i) ==
  /\ running = 0
  /\ frame[i].pc = "reading"
  /\ frame[i].reader # <<>>
  /\ hist' = [hist EXCEPT ![i].delivered = Append(@, Head(frame[i].reader))]

\* SpecLive: the first stream of Spec, in every environment of Spec, when
\* the event loop runs every continuation that is ready and every transport
\* read returns.
NextLive ==
  \/ /\ frame[1].pc = "idle"
     /\ UNCHANGED chat
     /\ \E p \in StreamProviders :
          \E chunks \in StreamTransports(p) : HandleStream(1, p, chunks)
  \/ HandleStreamStep(1)
  \/ ReaderReadValue(1) /\ UNCHANGED chat
  \/ ReaderReadRejects(1) /\ UNCHANGED chat
  \/ InFlight(1) /\ StopStream /\ UNCHANGED chat
  \/ \E k \in 1..Len(toolRuns), state \in {"resolved", "rejected"} :
       ToolSettles(k, state) /\ UNCHANGED chat

SpecLive ==
  /\ Init /\ [][NextLive]_vars
  /\ WF_vars(HandleStreamStep(1))
  /\ WF_hist(ReaderReadReturns(1))

\* C22: when every read returns and the transport ends or fails, every
\* handleStream invocation settles.  It calls onComplete at most once; a
\* stream that resolves has called it exactly once, as its last call, with
\* the Result it resolves with.
C22_Termination ==
  /\ [](\A i \in Invocations :
          LET onCompletes == SelectSeq(calls[i], LAMBDA c : c.cb = "onComplete")
          IN /\ Len(onCompletes) <= 1
             /\ (frame[i].pc = "settled" /\ promise[i].state = "resolved") =>
                  /\ Len(onCompletes) = 1
                  /\ calls[i][Len(calls[i])] =
                       [cb |-> "onComplete", arg |-> promise[i].value])
  /\ (frame[1].pc # "idle") ~> (frame[1].pc = "settled")

\* A stream whose transport signalled end-of-data after its last chunk and
\* that resolved with the Result it passed to onComplete.
C22_Witness ==
  /\ frame[1].pc = "settled"
  /\ frame[1].reader = <<>>
  /\ ~hist[1].stopped
  /\ Len(hist[1].delivered) = 2
  /\ promise[1].state = "resolved"
  /\ calls[1][Len(calls[1])] = [cb |-> "onComplete", arg |-> promise[1].value]

(***************************************************************************)
(* The accumulators and the buffer (Spec).                                 *)
(***************************************************************************)

\* Whether the sequence s begins with the sequence p.
StartsWithSeq(s, p) == Len(p) <= Len(s) /\ SubSeq(s, 1, Len(p)) = p

\* C23: the accumulators mirror the callbacks at every point of a stream.
\* fullContent is the concatenation, in call order, of the strings passed to
\* onToken so far, and toolCalls is the sequence of the values passed to
\* onToolCall so far; every step leaves both with what they held at their
\* beginning; and with every call made, the calls so far are, in order, the
\* first calls of the events the lines of the text read so far decode to.
C23_AccumulatorsMirrorCallbacks ==
  [][\A i \in Invocations :
       LET args(cb) ==
             LET cs == SelectSeq(calls[i], LAMBDA c : c.cb = cb)
             IN [k \in 1..Len(cs) |-> cs[k].arg]
           tokens == args("onToken")
           text == DecodeFrom(<<>>, Flatten(hist[i].delivered)).out
           wire == DispatchAll([f |-> IdleFrame, buffer |-> <<>>, calls |-> <<>>],
                               ProcessBuffer(text, frame[i].provider).processed).calls
       IN /\ frame[i].fullContent
               = Flatten([k \in 1..Len(tokens) |-> ToJsString(tokens[k])])
          /\ frame[i].toolCalls = args("onToolCall")
          /\ StartsWithSeq(frame'[i].fullContent, frame[i].fullContent)
          /\ StartsWithSeq(frame'[i].toolCalls, frame[i].toolCalls)
          /\ (calls'[i] # calls[i]) =>
                StartsWithSeq(wire, SelectSeq(calls'[i], LAMBDA c :
                                                c.cb \in {"onToken", "onToolCall"}))]_vars

\* A stream that has passed two tokens to onToken: fullContent holds the
\* first followed by the second.
C23_Witness ==
  /\ Len(SelectSeq(calls[1], LAMBDA c : c.cb = "onToken")) = 2
  /\ Len(frame[1].fullContent) = 3
  /\ SubSeq(frame[1].fullContent, 1, 2) = <<"H", "i">>

\* The events a decoder family emits for one line.
LineItems(provider, line) ==
  CASE Family(provider) = "anthropic" -> AnthropicLineItems(line)
    [] Family(provider) = "gemini" -> GeminiLineItems(line)
    [] OTHER -> OpenAILineItems(line)

\* The position of the last newline of a text, 0 when it has none.
LastNewline(s) ==
  LET at == {k \in 1..Len(s) : s[k] = "\n"}
  IN IF at = {} THEN 0 ELSE CHOOSE k \in at : \A m \in at : m <= k

\* C24: the buffer invariant.  After every decode pass the buffer is exactly
\* the text that followed the last newline of (previous buffer + new chunk),
\* it holds no newline, and the events of the pass are those of the lines
\* before that newline, each line decoded once, in order: nothing of a
\* consumed line stays in the buffer for a later pass.
C24_BufferInvariant ==
  [][\A i \in Invocations :
       (frame[i].pc = "reading" /\ frame'[i].pc = "processing") =>
         LET text == buffer \o TextDecoderDecode(frame[i].decoder,
                                                 Head(frame[i].reader)).out
             n == LastNewline(text)
             lines == IF n = 0 THEN <<>> ELSE Split(SubSeq(text, 1, n - 1))
         IN /\ buffer' = SubSeq(text, n + 1, Len(text))
            /\ \A k \in 1..Len(buffer') : buffer'[k] # "\n"
            /\ frame'[i].processed
                 = Flatten([k \in 1..Len(lines) |->
                              LineItems(frame[i].provider, lines[k])])]_vars

\* The second decode pass of a stream whose first chunk ended inside a line:
\* the line completed by the second chunk is consumed and the buffer is empty.
C24_Witness ==
  /\ frame[1].pc = "processing"
  /\ Len(hist[1].delivered) = 2
  /\ hist[1].delivered[1][Len(hist[1].delivered[1])] # "\n"
  /\ frame[1].processed # <<>>
  /\ buffer = <<>>

(***************************************************************************)
(* The decoders' mapping from lines to events.                             *)
(***************************************************************************)

\* The id, name and raw arguments string a fragment line of the delta-style
\* wire carries.
FragmentData(line) ==
  CASE line = OpenAIToolCall ->
         [id |-> Str(<<"c", "1">>), name |-> Str(<<"f">>), arguments |-> Str(<<>>)]
    [] line = OpenAIToolCallUnknown ->
         [id |-> Str(<<"c", "2">>), name |-> Str(<<"g">>), arguments |-> Str(<<>>)]
    [] line = OpenAIToolFragment ->
         [id |-> Undefined, name |-> Undefined, arguments |-> Str(<<"{", "}">>)]

FragmentLines == {OpenAIToolCall, OpenAIToolCallUnknown, OpenAIToolFragment}

\* C25: for the delta-style providers every fragment with a function payload
\* is one tool_call event of its own.  At every point of a stream the
\* recorded tool calls are, one per fragment and in order, the id, name and
\* raw arguments of the first fragments read so far, each entry as its own
\* fragment gave it whatever came later, and onToolCall has been called once
\* per entry; the Result of a stream of N fragments has N entries.
C25_FragmentsNeverMerged ==
  \A i \in Invocations :
    (frame[i].pc # "idle" /\ Family(frame[i].provider) = "openai"
       /\ (frame[i].toolCalls # <<>> \/ frame[i].pc = "settled")) =>
      LET text == DecodeFrom(<<>>, Flatten(hist[i].delivered)).out
          fragments == SelectSeq(LinesRest(Split(text)), LAMBDA l : l \in FragmentLines)
          expected == [k \in 1..Len(fragments) |-> FragmentData(fragments[k])]
          told == SelectSeq(calls[i], LAMBDA c : c.cb = "onToolCall")
      IN /\ StartsWithSeq(expected, frame[i].toolCalls)
         /\ frame[i].toolCalls = [k \in 1..Len(told) |-> told[k].arg]
         /\ (frame[i].pc = "settled" /\ promise[i].state = "resolved") =>
              /\ promise[i].value.toolCalls = expected
              /\ Len(told) = Len(expected)

\* A stream of one call in three fragments, read in two chunks, has resolved
\* with three entries: the first with the id and the name and no arguments,
\* the other two with a piece of the arguments and neither id nor name.
C25_Witness ==
  /\ frame[1].pc = "settled"
  /\ promise[1].state = "resolved"
  /\ Len(hist[1].delivered) = 2
  /\ promise[1].value.toolCalls
       = <<[id |-> Str(<<"c", "1">>), name |-> Str(<<"f">>), arguments |-> Str(<<>>)],
           [id |-> Undefined, name |-> Undefined, arguments |-> Str(<<"{", "}">>)],
           [id |-> Undefined, name |-> Undefined, arguments |-> Str(<<"{", "}">>)]>>
  /\ Len(SelectSeq(calls[1], LAMBDA c : c.cb = "onToolCall")) = 3

(***************************************************************************)
(* SpecDecode: one undisturbed stream per decoder whose lines exercise     *)
(* every branch of the decoder's mapping, in one chunk or cut in two at    *)
(* any byte.                                                                *)
(***************************************************************************)

\* data: {"choices":[{"delta":{"content":"Hi","tool_calls":[{"id":"c3"},{"id":"c1","function":{"name":"f","arguments":""}}]},"finish_reason":"stop"}]}
OpenAIFull ==
  <<"d","a","t","a",":"," ","{","\"","c","h","o","i","c","e","s","\"",":","[","{","\"","d","e",
    "l","t","a","\"",":","{","\"","c","o","n","t","e","n","t","\"",":","\"","H","i","\"",",",
    "\"","t","o","o","l","_","c","a","l","l","s","\"",":","[","{","\"","i","d","\"",":","\"",
    "c","3","\"","}",",","{","\"","i","d","\"",":","\"","c","1","\"",",","\"","f","u","n","c",
    "t","i","o","n","\"",":","{","\"","n","a","m","e","\"",":","\"","f","\"",",","\"","a","r",
    "g","u","m","e","n","t","s","\"",":","\"","\"","}","}","]","}",",","\"","f","i","n","i","s",
    "h","_","r","e","a","s","o","n","\"",":","\"","s","t","o","p","\"","}","]","}">>

\* data: {"choices":[{"delta":{"content":""}}]}
OpenAIEmptyContent ==
  <<"d","a","t","a",":"," ","{","\"","c","h","o","i","c","e","s","\"",":","[","{","\"","d","e",
    "l","t","a","\"",":","{","\"","c","o","n","t","e","n","t","\"",":","\"","\"","}","}","]","}">>

\* {"choices":[{"delta":{"content":"Hi"}}]}
OpenAIUnprefixed ==
  <<"{","\"","c","h","o","i","c","e","s","\"",":","[","{","\"","d","e","l","t","a","\"",":","{",
    "\"","c","o","n","t","e","n","t","\"",":","\"","H","i","\"","}","}","]","}">>

\* data: {"choices":[{"delta":{"tool_calls":[null]},"finish_reason":"stop"}]}
OpenAINullEntry ==
  <<"d","a","t","a",":"," ","{","\"","c","h","o","i","c","e","s","\"",":","[","{","\"","d","e",
    "l","t","a","\"",":","{","\"","t","o","o","l","_","c","a","l","l","s","\"",":","[","n","u",
    "l","l","]","}",",","\"","f","i","n","i","s","h","_","r","e","a","s","o","n","\"",":","\"",
    "s","t","o","p","\"","}","]","}">>

\* data: {"type":"content_block_delta","delta":{"type":"input_json_delta","partial_json":"{}"}}
AnthropicInputDelta ==
  <<"d","a","t","a",":"," ","{","\"","t","y","p","e","\"",":","\"","c","o","n","t","e","n","t",
    "_","b","l","o","c","k","_","d","e","l","t","a","\"",",","\"","d","e","l","t","a","\"",":",
    "{","\"","t","y","p","e","\"",":","\"","i","n","p","u","t","_","j","s","o","n","_","d","e",
    "l","t","a","\"",",","\"","p","a","r","t","i","a","l","_","j","s","o","n","\"",":","\"","{",
    "}","\"","}","}">>

\* {"candidates":[{"content":{"parts":[{"text":"Hi","functionCall":{"name":"f","args":{"a":1}}},{"text":""},{"functionCall":{"name":"g","args":{}}}]},"finishReason":"STOP"}]}
GeminiParts ==
  <<"{","\"","c","a","n","d","i","d","a","t","e","s","\"",":","[","{","\"","c","o","n","t","e",
    "n","t","\"",":","{","\"","p","a","r","t","s","\"",":","[","{","\"","t","e","x","t","\"",
    ":","\"","H","i","\"",",","\"","f","u","n","c","t","i","o","n","C","a","l","l","\"",":","{",
    "\"","n","a","m","e","\"",":","\"","f","\"",",","\"","a","r","g","s","\"",":","{","\"","a",
    "\"",":","1","}","}","}",",","{","\"","t","e","x","t","\"",":","\"","\"","}",",","{","\"",
    "f","u","n","c","t","i","o","n","C","a","l","l","\"",":","{","\"","n","a","m","e","\"",":",
    "\"","g","\"",",","\"","a","r","g","s","\"",":","{","}","}","}","]","}",",","\"","f","i",
    "n","i","s","h","R","e","a","s","o","n","\"",":","\"","S","T","O","P","\"","}","]","}">>

\* {"candidates":[{"content":{"parts":[null]},"finishReason":"STOP"}]}
GeminiNullPart ==
  <<"{","\"","c","a","n","d","i","d","a","t","e","s","\"",":","[","{","\"","c","o","n","t","e",
    "n","t","\"",":","{","\"","p","a","r","t","s","\"",":","[","n","u","l","l","]","}",",","\"",
    "f","i","n","i","s","h","R","e","a","s","o","n","\"",":","\"","S","T","O","P","\"","}","]",
    "}">>


\* data: {"type":"content_block_start","content_block":{"type":"thinking","thinking":""}}
AnthropicThinkingStart ==
  <<"d","a","t","a",":"," ","{","\"","t","y","p","e","\"",":","\"","c","o","n","t","e","n","t",
    "_","b","l","o","c","k","_","s","t","a","r","t","\"",",","\"","c","o","n","t","e","n","t",
    "_","b","l","o","c","k","\"",":","{","\"","t","y","p","e","\"",":","\"","t","h","i","n","k",
    "i","n","g","\"",",","\"","t","h","i","n","k","i","n","g","\"",":","\"","\"","}","}">>

\* data: {"type":"content_block_delta","delta":{"type":"thinking_delta","thinking":"hm"}}
AnthropicThinkingDelta ==
  <<"d","a","t","a",":"," ","{","\"","t","y","p","e","\"",":","\"","c","o","n","t","e","n","t",
    "_","b","l","o","c","k","_","d","e","l","t","a","\"",",","\"","d","e","l","t","a","\"",":",
    "{","\"","t","y","p","e","\"",":","\"","t","h","i","n","k","i","n","g","_","d","e","l","t",
    "a","\"",",","\"","t","h","i","n","k","i","n","g","\"",":","\"","h","m","\"","}","}">>

\* data: {"choices":[{"delta":{"reasoning_content":"hm"}}]}
OpenAIReasoning ==
  <<"d","a","t","a",":"," ","{","\"","c","h","o","i","c","e","s","\"",":","[","{","\"","d","e",
    "l","t","a","\"",":","{","\"","r","e","a","s","o","n","i","n","g","_","c","o","n","t","e",
    "n","t","\"",":","\"","h","m","\"","}","}","]","}">>

\* The lines of the mapping fixture of a provider tag; the last lines are the
\* thinking output and the error payload of the provider.
MappingLines(provider) ==
  CASE Family(provider) = "anthropic" ->
         <<AnthropicEvent, AnthropicToolUse, AnthropicInputDelta, AnthropicToken,
           AnthropicStop, AnthropicThinkingStart, AnthropicThinkingDelta,
           AnthropicError>>
    [] Family(provider) = "gemini" ->
         <<GeminiParts, BlankLine, GeminiNullPart, GeminiError>>
    [] OTHER ->
         <<OpenAIFull, OpenAIEmptyContent, OpenAIUnprefixed, OpenAINullEntry,
           OpenAIReasoning, OpenAIError>>

DecodeTransports(provider) ==
  LET payload == Wire(MappingLines(provider))
  IN {<<payload>>} \cup {CutAt(payload, k) : k \in 1..(Len(payload) - 1)}

NextDecode ==
  \/ /\ frame[1].pc = "idle"
     /\ UNCHANGED chat
     /\ \E p \in StreamProviders :
          \E chunks \in DecodeTransports(p) : HandleStream(1, p, chunks)
  \/ WhileIsStreaming(1) /\ UNCHANGED chat
  \/ ReaderReadValue(1) /\ UNCHANGED chat
  \/ ReaderReadDone(1) /\ UNCHANGED chat
  \/ ProcessBufferResumes(1) /\ UNCHANGED chat
  \/ DispatchItem(1, "return") /\ UNCHANGED chat
  \/ OnComplete(1, "return") /\ UNCHANGED chat
  \/ Finally(1) /\ UNCHANGED chat

SpecDecode == Init /\ [][NextDecode]_vars

\* The events the stated mappings give for each line of the fixtures: a token
\* for a non-empty text, a tool_call for an entry or a part or a block that
\* carries a call, a finish for a reason that is set or a message_stop, and
\* nothing for an empty text, an entry or a part that carries neither (as a
\* null does), an input delta, an `event: ` line or a line without its prefix.
ClaimedEvents(line) ==
  LET hi == [type |-> "token", content |-> Str(<<"H", "i">>)]
      finish(reason) == [type |-> "finish", reason |-> Str(reason)]
  IN CASE line = OpenAIFull ->
            <<hi,
              [type |-> "tool_call",
               data |-> [id |-> Str(<<"c", "1">>), name |-> Str(<<"f">>),
                         arguments |-> Str(<<>>)]],
              finish(<<"s", "t", "o", "p">>)>>
       [] line = OpenAINullEntry -> <<finish(<<"s", "t", "o", "p">>)>>
       [] line = AnthropicToolUse ->
            <<[type |-> "tool_call",
               data |-> [id |-> Str(<<"t", "1">>), name |-> Str(<<"f">>),
                         input |-> EmptyObject]]>>
       [] line = AnthropicToken -> <<hi>>
       [] line = AnthropicStop -> <<finish(<<"s", "t", "o", "p">>)>>
       [] line = GeminiParts ->
            <<hi,
              [type |-> "tool_call",
               data |-> [name |-> Str(<<"f">>),
                         arguments |-> Obj(<<"a">> :> Num(1))]],
              [type |-> "tool_call",
               data |-> [name |-> Str(<<"g">>), arguments |-> EmptyObject]],
              finish(<<"S", "T", "O", "P">>)>>
       [] line = GeminiNullPart -> <<finish(<<"S", "T", "O", "P">>)>>
       [] OTHER -> <<>>

\* The step is a decode pass of invocation i: a chunk is read, appended to
\* the buffer and decoded.
DecodePass(i) == frame[i].pc = "reading" /\ frame'[i].pc = "processing"

\* The events of the decode pass are those the stated mapping gives for the
\* complete lines of (buffer + chunk), line by line and in order.
PassMatchesClaim(i) ==
  LET text == buffer \o TextDecoderDecode(frame[i].decoder, Head(frame[i].reader)).out
      lines == LinesRest(Split(text))
  IN frame'[i].processed = Flatten([k \in 1..Len(lines) |-> ClaimedEvents(lines[k])])

\* C26: the delta-SSE mapping.  Every complete `data: ` line whose JSON has
\* choices[0] emits, in this order, one token if delta.content is non-empty,
\* one tool_call per entry of delta.tool_calls that has a function payload
\* (none for an entry without one) and one finish if finish_reason is set;
\* a line without the prefix emits nothing.
C26_DeltaMapping ==
  [][\A i \in Invocations :
       (DecodePass(i) /\ Family(frame[i].provider) = "openai")
         => PassMatchesClaim(i)]_vars

\* C27: the typed-SSE mapping.  A content_block_start of type tool_use emits
\* one tool_call with the id, name and input of the block start; an input
\* delta emits nothing and leaves the recorded call as it was; a
\* content_block_delta with delta.text emits one token; message_stop emits
\* one finish with reason 'stop'; an `event: ` line emits nothing.
C27_TypedMapping ==
  [][\A i \in Invocations :
       LET call == [id |-> Str(<<"t", "1">>), name |-> Str(<<"f">>),
                    input |-> EmptyObject]
       IN Family(frame[i].provider) = "anthropic" =>
            /\ DecodePass(i) => PassMatchesClaim(i)
            /\ frame[i].toolCalls \in {<<>>, <<call>>}
            /\ (frame[i].toolCalls = <<call>>) => (frame'[i].toolCalls = <<call>>)
            /\ (frame[i].pc = "settled" /\ promise[i].state = "resolved") =>
                 /\ promise[i].value.toolCalls = <<call>>
                 /\ promise[i].value.content = <<"H", "i">>]_vars

\* A typed-SSE stream read in two chunks, the first ending after the input
\* delta has begun, has resolved with the one call of the block start.
C27_Witness ==
  /\ frame[1].provider = "anthropic"
  /\ frame[1].pc = "settled"
  /\ promise[1].state = "resolved"
  /\ Len(hist[1].delivered) = 2
  /\ Len(hist[1].delivered[1])
       > Len(Wire(<<AnthropicEvent, AnthropicToolUse>>)) + 10
  /\ Len(promise[1].value.toolCalls) = 1
  /\ promise[1].value.toolCalls[1].input = EmptyObject
  /\ \E k \in 1..Len(calls[1]) : calls[1][k].cb = "onToken"

\* C28: the NDJSON mapping.  Every non-blank complete line is parsed as an
\* unprefixed JSON document; the parts of candidates[0] are walked in order,
\* each part emitting a token if it has a non-empty text and then a tool_call
\* (name, arguments = the structured args object) if it has a functionCall;
\* one finish is emitted last if finishReason is set.
C28_NdjsonMapping ==
  [][\A i \in Invocations :
       (DecodePass(i) /\ Family(frame[i].provider) = "gemini")
         => PassMatchesClaim(i)]_vars

ReportedAt(log, ev) == {k \in 1..Len(log) : log[k].ev = ev}

\* C30: in the streaming path the end of the chat is not ordered after the
\* end of its tool executions.  A stream that has left its loop completes
\* (the assistant message is appended, the task is marked completed)
\* whether or not executions it launched are in flight, and its promise then
\* settles the chat; and whenever executions are in flight, each of them,
\* whichever was launched first, may be the next to end, well or badly.
C30_CompletionNotOrderedAfterTools ==
  /\ \A i \in Invocations :
       /\ (chat[i].pc = "stream" /\ frame[i].pc = "complete" /\ running = i)
            => ENABLED StreamComplete(i, "return")
       /\ (chat[i].pc = "stream" /\ frame[i].pc = "settled" /\ running = 0)
            => ENABLED HandleStreamSettles(i)
  /\ \A k \in 1..Len(toolRuns) :
       (chat[toolRuns[k].inv].stream /\ toolRuns[k].state = "pending" /\ running = 0)
         => /\ ENABLED StreamToolSettles(k, "resolved")
            /\ ENABLED StreamToolSettles(k, "rejected")

\* A streaming chat has resolved, with the assistant message appended and
\* the task completed, while the first of the two executions it launched is
\* still in flight; the second, launched while the first was in flight, has
\* ended before it and before the chat completed.
C30_Witness ==
  /\ chat[1].stream
  /\ chat[1].pc = "settled"
  /\ chat[1].promise.state = "resolved"
  /\ chat[1].task = <<"pending", "running", "completed">>
  /\ Len(toolRuns) = 2
  /\ toolRuns[1].inv = 1 /\ toolRuns[1].state = "pending"
  /\ toolRuns[2].inv = 1 /\ toolRuns[2].state = "resolved"
  /\ LET log == chat[1].log
         pushed == {k \in ReportedAt(log, "messages.push") :
                      log[k].arg.role = "assistant"}
     IN /\ pushed # {}
        /\ Cardinality(ReportedAt(log, "logToolCallInitiated")) = 2
        /\ Cardinality(ReportedAt(log, "logToolCallCompleted")) = 1
        /\ \A a \in ReportedAt(log, "logToolCallInitiated"),
              b \in ReportedAt(log, "logToolCallCompleted"),
              c \in pushed : a < b /\ b < c

(***************************************************************************)
(* The end of a chat: the task, the callbacks, the history and the         *)
(* thinking tracker.                                                       *)
(***************************************************************************)

\* C31: a task whose status has been set to completed is never afterwards
\* set to failed, in every execution of chat, also when options.onComplete
\* throws.
C31_CompletedNeverFailed ==
  \A i \in Invocations :
    \A a, b \in 1..Len(chat[i].task) :
      (a < b /\ chat[i].task[a] = "completed") => chat[i].task[b] # "failed"

\* The positions of the calls of callback cb among the calls of invocation i.
CalledAt(i, cb) == {k \in 1..Len(calls[i]) : calls[i][k].cb = cb}

\* C32 as stated: onComplete and onError are never both invoked for one
\* handleStream invocation; exactly one of them is called, exactly once, when
\* the invocation settles.
C32_ExactlyOneOfCompleteAndError ==
  \A i \in Invocations :
    /\ Cardinality(CalledAt(i, "onComplete")) + Cardinality(CalledAt(i, "onError")) <= 1
    /\ frame[i].pc = "settled" =>
         Cardinality(CalledAt(i, "onComplete")) + Cardinality(CalledAt(i, "onError")) = 1

\* C32, amended: each of onComplete and onError is called at most once, as
\* the last calls of the invocation and not before it ends.  An invocation
\* that resolves has called onComplete and not onError; one that rejects has
\* called onError last; both are called only when onComplete itself throws:
\* then onError follows it at once and the invocation rejects.
C32_CompleteThenErrorOnlyWhenCompleteThrows ==
  \A i \in Invocations :
    LET nC == Cardinality(CalledAt(i, "onComplete"))
        nE == Cardinality(CalledAt(i, "onError"))
        n == Len(calls[i])
    IN /\ nC <= 1 /\ nE <= 1
       /\ nE = 1 => calls[i][n].cb = "onError"
       /\ (nC = 1 /\ nE = 0) => calls[i][n].cb = "onComplete"
       /\ (nC = 1 /\ nE = 1) =>
            /\ calls[i][n - 1].cb = "onComplete"
            /\ hist[i].thrown \in {CallbackError("Error"), CallbackError("StreamError")}
            /\ frame[i].pc \in {"finally", "settled"}
       /\ nC + nE >= 1 => frame[i].pc \in {"catch", "finally", "settled"}
       /\ frame[i].pc = "settled" =>
            /\ promise[i].state = "resolved" => (nC = 1 /\ nE = 0)
            /\ promise[i].state = "rejected" => nE = 1

\* A stream whose onComplete threw: onComplete was called with the result,
\* onError was called after it with the wrapped error, and the promise is
\* rejected.
C32_Witness ==
  /\ frame[1].pc = "settled"
  /\ promise[1].state = "rejected"
  /\ Len(calls[1]) >= 2
  /\ calls[1][Len(calls[1]) - 1].cb = "onComplete"
  /\ calls[1][Len(calls[1])].cb = "onError"
  /\ calls[1][Len(calls[1])].arg = promise[1].value

\* C33: in a streaming chat that fails during stream processing (transport
\* failure, in-band error or throwing callback), options.onError is invoked
\* exactly once for that failure.
C33_OnErrorOncePerStreamFailure ==
  \A i \in Invocations :
    (/\ chat[i].stream
     /\ chat[i].pc = "settled"
     /\ frame[i].pc = "settled"
     /\ promise[i].state = "rejected")
    => Len(Reported(chat[i].log, "options.onError")) = 1

\* The text an invocation has read so far, the lines of it that a newline
\* ends and the text after its last newline.
TextRead(i) == DecodeFrom(<<>>, Flatten(hist[i].delivered)).out

LinesRead(i) ==
  LET n == LastNewline(TextRead(i))
  IN IF n = 0 THEN <<>> ELSE Split(SubSeq(TextRead(i), 1, n - 1))

TailRead(i) == SubSeq(TextRead(i), LastNewline(TextRead(i)) + 1, Len(TextRead(i)))

\* The callback calls the events of a sequence of lines make, in order.
LinesCalls(provider, lines) ==
  DispatchAll([f |-> IdleFrame, buffer |-> <<>>, calls |-> <<>>],
              Flatten([k \in 1..Len(lines) |-> LineItems(provider, lines[k])])).calls

\* C34: the unterminated last line is discarded without being decoded.  When
\* a stream ends, by end of data, by stopStream or by a failure, the buffer
\* holds the text read after the last newline; the finally block drops it
\* and no callback is called for it: the calls of the stream are calls of
\* the lines a newline ended, all of them when the stream was read to its
\* end undisturbed, and the Result holds their content and tool calls only.
C34_UnterminatedLastLineDiscarded ==
  [][\A i \in Invocations :
       frame[i].pc = "finally" =>
         LET made == SelectSeq(calls[i], LAMBDA c : c.cb \in {"onToken", "onToolCall"})
             due == LinesCalls(frame[i].provider, LinesRead(i))
         IN /\ buffer = TailRead(i)
            /\ StartsWithSeq(due, made)
            /\ (hist[i].benign /\ ~hist[i].stopped /\ frame[i].reader = <<>>)
                 => made = due
            /\ frame'[i].pc = "settled" =>
                 /\ buffer' = <<>>
                 /\ calls'[i] = calls[i]
                 /\ promise'[i].state = "resolved" =>
                      /\ promise'[i].value.content = frame[i].fullContent
                      /\ promise'[i].value.toolCalls = frame[i].toolCalls]_vars

\* A stream read to its end has resolved; its payload ended with a line that
\* no newline followed and that holds a token; the Result has the content
\* of the line before it and nothing of the last line.
C34_Witness ==
  /\ frame[1].pc = "settled"
  /\ promise[1].state = "resolved"
  /\ hist[1].benign /\ ~hist[1].stopped /\ frame[1].reader = <<>>
  /\ TailRead(1) # <<>>
  /\ \E k \in 1..Len(LineItems(frame[1].provider, TailRead(1))) :
       LineItems(frame[1].provider, TailRead(1))[k].type = "token"
  /\ promise[1].value.content = <<"H", "i">>
  /\ buffer = <<>>

PushedAt(i, role) ==
  {k \in ReportedAt(chat[i].log, "messages.push") : chat[i].log[k].arg.role = role}

\* The history of a chat up to its completion: the user message is appended
\* before the request is sent (it is there at the await of the request and
\* at every later point), and is never removed; at most one
\* assistant message is appended, only when the response has completed with
\* a non-empty content, which it holds.
HistoryUpToCompletion(i) ==
  /\ chat[i].pc # "idle" => PushedAt(i, "user") = {2}
  /\ Cardinality(PushedAt(i, "assistant")) <= 1
  /\ \A k \in PushedAt(i, "assistant") :
       /\ chat[i].log[k].arg.content # <<>>
       /\ IF chat[i].stream
          THEN /\ CalledAt(i, "onComplete") # {}
               /\ \A n \in CalledAt(i, "onComplete") :
                    calls[i][n].arg.content = chat[i].log[k].arg.content
          ELSE chat[i].result.content = chat[i].log[k].arg.content

\* C36: the conversation history across chat.  The user message is appended
\* before the request is sent and stays when chat rejects; an assistant
\* message is appended only when the response completes with a non-empty
\* content, and never for a chat that rejects.
C36_HistoryAcrossChat ==
  \A i \in Invocations :
    /\ HistoryUpToCompletion(i)
    /\ (chat[i].pc = "settled" /\ chat[i].promise.state = "rejected")
         => PushedAt(i, "assistant") = {}

(***************************************************************************)
(* The thinking tracker over a chat.  The tracker is Idle or Thinking:     *)
(* startThinking moves it to Thinking, setAction changes the narration and *)
(* leaves it where it is, stopThinking moves it to Idle.                   *)
(***************************************************************************)

\* Whether the tracker is Thinking after the transitions reported in log:
\* the last of its startThinking and stopThinking transitions is a
\* startThinking.
IsThinking(log) ==
  LET moved == ReportedAt(log, "startThinking") \cup ReportedAt(log, "stopThinking")
  IN /\ moved # {}
     /\ \E k \in moved : /\ \A m \in moved : m <= k
                         /\ log[k].ev = "startThinking"

\* The transitions of the tracker reported in log, in their order.
TrackerTransitions(log) ==
  SelectSeq(log, LAMBDA e : e.ev \in {"startThinking", "setAction", "stopThinking"})

\* C37: whenever a chat that created a task settles, by resolving or by
\* rejecting, stopThinking has been called after the last setAction of that
\* chat, so the tracker is Idle at that point, also when tool calls were
\* dispatched during the stream; no step after the settling, the end of a
\* tool execution still in flight included, adds a transition of the tracker
\* for that chat.
C37_TrackerIdleWhenChatSettles ==
  [][\A i \in Invocations :
       (chat'[i].pc = "settled" /\ chat'[i].task # <<>>) =>
         LET log == chat'[i].log IN
           /\ chat'[i].promise.state \in {"resolved", "rejected"}
           /\ ReportedAt(log, "stopThinking") # {}
           /\ \A a \in ReportedAt(log, "setAction") \cup ReportedAt(log, "startThinking") :
                \E b \in ReportedAt(log, "stopThinking") : a < b
           /\ ~IsThinking(log)
           /\ chat[i].pc = "settled" =>
                TrackerTransitions(log) = TrackerTransitions(chat[i].log)]_vars

\* A streaming chat has resolved after a call of the registered tool was
\* dispatched during the stream; the execution is still in flight; the
\* action of the tracker was set for the tool, and stopThinking came after.
C37_Witness ==
  /\ chat[1].pc = "settled"
  /\ chat[1].stream
  /\ chat[1].promise.state = "resolved"
  /\ \E k \in 1..Len(toolRuns) : toolRuns[k].inv = 1 /\ toolRuns[k].state = "pending"
  /\ LET log == chat[1].log IN
       /\ \E a \in ReportedAt(log, "setAction") :
            /\ Len(log[a].arg) = 2
            /\ log[a].arg[1] = "Executing tool: "
            /\ \E t \in ReportedAt(log, "options.onToken") : a < t
            /\ \A m \in ReportedAt(log, "setAction") : m <= a
       /\ Cardinality(ReportedAt(log, "stopThinking")) = 1

====
